---- MODULE Spec2Model ----
(***************************************************************************)
(* Model of the object identity and volumetric estimation core of the      *)
(* nutrition video pipeline (app/pipeline.py, NutritionVideoPipeline).     *)
(*                                                                         *)
(* Units.  Python floats are modelled by integers in fixed units:          *)
(*   boxes and pixel counts     pixels                                     *)
(*   depths                     millimetres  (0.5 m = 500)                 *)
(*   pixels_per_cm              1/100 px/cm  (16.0 px/cm = 1600)           *)
(*   areas                      1/10 cm^2                                  *)
(*   heights, diameters         1/10 cm                                    *)
(*   volumes                    1/10 ml      (1000 ml = 10000)             *)
(* IoU values are exact fractions [n, d].  None is the integer -1, which   *)
(* no id, depth, scale or volume of the program equals.                    *)
(* Labels are sequences of one-character strings so that lower(), strip(), *)
(* startswith(), endswith() and the substring test `in` can be computed.   *)
(***************************************************************************)
EXTENDS Integers, Sequences, FiniteSets, TLC

None == -1

(***************************************************************************)
(* Bounds of the model                                                     *)
(***************************************************************************)
NumFrames == 6
MaxDet == 2
MaxItems == 2

(***************************************************************************)
(* Configuration (app/config.py)                                           *)
(***************************************************************************)
DETECTION_INTERVAL == 5
DEFAULT_PIXELS_PER_CM == 1600
DEFAULT_REFERENCE_PLANE_DEPTH_M == 500
REFERENCE_PLATE_DIAMETER_CM == 25
REFERENCE_BOWL_DIAMETER_CM == 20

(***************************************************************************)
(* Small arithmetic helpers                                                *)
(***************************************************************************)
Max(a, b) == IF a >= b THEN a ELSE b
Min(a, b) == IF a <= b THEN a ELSE b

RECURSIVE GCD(_, _)
GCD(a, b) == IF b = 0 THEN a ELSE GCD(b, a % b)

\* floor of the square root, by bisection
RECURSIVE ISqrtBin(_, _, _)
ISqrtBin(x, lo, hi) ==
    IF hi - lo <= 1 THEN lo
    ELSE LET mid == (lo + hi) \div 2
         IN IF mid * mid <= x THEN ISqrtBin(x, mid, hi) ELSE ISqrtBin(x, lo, mid)
ISqrt(x) == IF x <= 0 THEN 0 ELSE ISqrtBin(x, 0, 46341)

RECURSIVE SeqMax(_)
SeqMax(s) == IF Len(s) = 1 THEN s[1] ELSE Max(s[1], SeqMax(Tail(s)))

(***************************************************************************)
(* Labels as character sequences                                           *)
(***************************************************************************)
LowerChar(c) ==
    CASE c = "R" -> "r"
      [] c = "T" -> "t"
      [] c = "P" -> "p"
      [] c = "F" -> "f"
      [] c = "B" -> "b"
      [] OTHER -> c

Lower(s) == [k \in 1..Len(s) |-> LowerChar(s[k])]

RECURSIVE LStrip(_)
LStrip(s) == IF Len(s) > 0 /\ s[1] = " " THEN LStrip(Tail(s)) ELSE s
RECURSIVE RStrip(_)
RStrip(s) == IF Len(s) > 0 /\ s[Len(s)] = " " THEN RStrip(SubSeq(s, 1, Len(s) - 1)) ELSE s
Strip(s) == RStrip(LStrip(s))

StartsWith(s, p) == Len(s) >= Len(p) /\ SubSeq(s, 1, Len(p)) = p
EndsWith(s, p) == Len(s) >= Len(p) /\ SubSeq(s, Len(s) - Len(p) + 1, Len(s)) = p
\* Python's `word in label`
Contains(s, w) == \E k \in 0..(Len(s) - Len(w)) : SubSeq(s, k + 1, k + Len(w)) = w

W_a == <<"a", " ">>
W_an == <<"a", "n", " ">>
W_the == <<"t", "h", "e", " ">>
W_s == <<"s">>
W_glass == <<"g", "l", "a", "s", "s">>
W_glasses == <<"g", "l", "a", "s", "s", "e", "s">>
W_fries == <<"f", "r", "i", "e", "s">>
W_nuggets == <<"n", "u", "g", "g", "e", "t", "s">>
W_plate == <<"p", "l", "a", "t", "e">>
W_bowl == <<"b", "o", "w", "l">>
W_cup == <<"c", "u", "p">>
W_ribs == <<"r", "i", "b", "s">>
W_rib == <<"r", "i", "b">>
W_The_Ribs == <<"T", "h", "e", " ", "R", "i", "b", "s">>
W_Ribs == <<"R", "i", "b", "s">>
W_chips == <<"c", "h", "i", "p", "s">>
W_crisps == <<"c", "r", "i", "s", "p", "s">>
W_potato == <<"p", "o", "t", "a", "t", "o">>
W_flat == <<"f", "l", "a", "t">>
W_burger == <<"b", "u", "r", "g", "e", "r">>
W_sandwich == <<"s", "a", "n", "d", "w", "i", "c", "h">>
W_cheeseburger == <<"c", "h", "e", "e", "s", "e", "b", "u", "r", "g", "e", "r">>
W_hamburger == <<"h", "a", "m", "b", "u", "r", "g", "e", "r">>
W_french_fries == <<"f", "r", "e", "n", "c", "h", " ", "f", "r", "i", "e", "s">>
W_pizza == <<"p", "i", "z", "z", "a">>
W_salad == <<"s", "a", "l", "a", "d">>
W_soup == <<"s", "o", "u", "p">>
W_ice_cream == <<"i", "c", "e", " ", "c", "r", "e", "a", "m">>
W_nugget == <<"n", "u", "g", "g", "e", "t">>
W_chicken == <<"c", "h", "i", "c", "k", "e", "n">>
W_Burger_and_Fries == <<"B", "u", "r", "g", "e", "r", " ", "a", "n", "d", " ", "F", "r", "i", "e", "s">>
W_French_Fries == <<"F", "r", "e", "n", "c", "h", " ", "F", "r", "i", "e", "s">>
W_chicken_nuggets == <<"c", "h", "i", "c", "k", "e", "n", " ", "n", "u", "g", "g", "e", "t", "s">>

StripArticle(s, article) ==
    IF StartsWith(s, article) THEN Strip(SubSeq(s, Len(article) + 1, Len(s))) ELSE s

\* normalize_label of _deduplicate_tracked_objects
normalize_label(label) ==
    LET l0 == Strip(Lower(label))
        l1 == StripArticle(l0, W_a)
        l2 == StripArticle(l1, W_an)
        l3 == StripArticle(l2, W_the)
    IN IF EndsWith(l3, W_s) /\ l3 \notin {W_glass, W_glasses, W_fries, W_nuggets}
       THEN SubSeq(l3, 1, Len(l3) - 1)
       ELSE l3

(***************************************************************************)
(* Geometry                                                                *)
(***************************************************************************)
BoxArea(b) == (b[3] - b[1]) * (b[4] - b[2])

\* variant: the early return for an empty intersection is missing
_calculate_iou_noearly(box1, box2) ==
    LET inter_area == (Min(box1[3], box2[3]) - Max(box1[1], box2[1]))
                      * (Min(box1[4], box2[4]) - Max(box1[2], box2[2]))
        union_area == BoxArea(box1) + BoxArea(box2) - inter_area
    IN IF union_area = 0 THEN [n |-> 0, d |-> 1]
       ELSE [n |-> inter_area, d |-> union_area]

\* _calculate_iou, as an exact fraction in lowest terms
_calculate_iou(box1, box2) ==
    LET inter_x_min == Max(box1[1], box2[1])
        inter_y_min == Max(box1[2], box2[2])
        inter_x_max == Min(box1[3], box2[3])
        inter_y_max == Min(box1[4], box2[4])
        inter_area == (inter_x_max - inter_x_min) * (inter_y_max - inter_y_min)
        union_area == BoxArea(box1) + BoxArea(box2) - inter_area
        g == GCD(inter_area, union_area)
    IN IF inter_x_max < inter_x_min \/ inter_y_max < inter_y_min
       THEN [n |-> 0, d |-> 1]
       ELSE IF union_area = 0 THEN [n |-> 0, d |-> 1]
       ELSE [n |-> inter_area \div g, d |-> union_area \div g]

\* a > b for fractions with positive denominators
FracGt(a, b) == a.n * b.d > b.n * a.d
Frac(n, d) == [n |-> n, d |-> d]
FracZero == Frac(0, 1)
IoUHalf == Frac(1, 2)
IoUFifth == Frac(1, 5)

(***************************************************************************)
(* Calibration Engine: _calibrate_from_reference_object                    *)
(*   ref_box is the reference box, region_median the median of the         *)
(*   positive depths inside it ("nan" when there is none: np.median of an  *)
(*   empty selection).  Returns (pixels_per_cm, reference_depth_m).        *)
(***************************************************************************)
NaN == -2

ref_diameter_cm(ref_type) ==
    IF ref_type = "plate" THEN REFERENCE_PLATE_DIAMETER_CM
    ELSE IF ref_type = "bowl" THEN REFERENCE_BOWL_DIAMETER_CM
    ELSE REFERENCE_PLATE_DIAMETER_CM

\* variant: the aspect-ratio ceiling is 3.0 instead of 1.5
is_reasonable_wide(ref_width_px, ref_height_px, pixels_per_cm) ==
    LET hh == Max(ref_height_px, 1)
    IN /\ 6 * hh < 10 * ref_width_px
       /\ 10 * ref_width_px <= 30 * hh
       /\ ref_width_px > 50
       /\ pixels_per_cm > 300
       /\ pixels_per_cm < 3000

\* the plausibility test; aspect_ratio = ref_width_px / max(ref_height_px, 1)
is_reasonable(ref_width_px, ref_height_px, pixels_per_cm) ==
    LET hh == Max(ref_height_px, 1)
    IN /\ 6 * hh < 10 * ref_width_px
       /\ 10 * ref_width_px < 15 * hh
       /\ ref_width_px > 50
       /\ pixels_per_cm > 300
       /\ pixels_per_cm < 3000

_calibrate_from_reference_object(ref_box, region_median, ref_type) ==
    LET ref_width_px == ref_box[3] - ref_box[1]
        ref_height_px == ref_box[4] - ref_box[2]
        pixels_per_cm == (ref_width_px * 100) \div ref_diameter_cm(ref_type)
    IN IF ~is_reasonable(ref_width_px, ref_height_px, pixels_per_cm)
       THEN [pixels_per_cm |-> DEFAULT_PIXELS_PER_CM,
             reference_depth_m |-> IF region_median # NaN /\ region_median > 0
                                   THEN region_median ELSE 500]
       ELSE [pixels_per_cm |-> pixels_per_cm,
             reference_depth_m |-> region_median]

(***************************************************************************)
(* Volume Estimator: _calculate_volume_metric3d                            *)
(*   mask_depth summarises the mask and the depth values under it:         *)
(*     pixel_count   number of mask pixels (= len(depth_values_m))         *)
(*     valid         whether any depth under the mask is positive          *)
(*     p10 p15 p75 p90   np.percentile of the positive depths (mm)         *)
(***************************************************************************)
AnyWordIn(words, label_lower) == \E w \in words : Contains(label_lower, w)

typical_max_volumes ==
    << <<W_burger, 5000>>, <<W_sandwich, 5000>>, <<W_cheeseburger, 5000>>,
       <<W_hamburger, 5000>>, <<W_fries, 2000>>, <<W_french_fries, 2000>>,
       <<W_potato, 2000>>, <<W_pizza, 10000>>, <<W_salad, 5000>>,
       <<W_soup, 5000>>, <<W_ice_cream, 3000>>, <<W_nugget, 1000>>,
       <<W_chicken, 3000>> >>

\* the first entry, in dictionary order, whose key occurs in the label
RECURSIVE FirstMatchFrom(_, _, _)
FirstMatchFrom(table, label_lower, k) ==
    IF k > Len(table) THEN None
    ELSE IF Contains(label_lower, table[k][1]) THEN table[k][2]
    ELSE FirstMatchFrom(table, label_lower, k + 1)
matched_max(label_lower) == FirstMatchFrom(typical_max_volumes, label_lower, 1)

surface_area_cm2(pixel_count, pixels_per_cm) ==
    (((pixel_count * 1000) \div pixels_per_cm) * 100) \div pixels_per_cm

\* 2 * sqrt(area / pi), pi taken as 355/113
estimated_diameter_cm(area) == ISqrt((area * 40 * 113) \div 355)

raw_height_cm(mask_depth, reference_plane_depth_m) ==
    IF reference_plane_depth_m # None /\ reference_plane_depth_m > 0
    THEN LET height_above_plane_m == reference_plane_depth_m - mask_depth.p10
             depth_variation_m == mask_depth.p90 - mask_depth.p10
         IN Max(0, Max(height_above_plane_m, depth_variation_m))
    ELSE Max(0, mask_depth.p75 - mask_depth.p15)

is_flat_item(label_lower) ==
    AnyWordIn({W_fries, W_chips, W_crisps, W_potato, W_flat}, label_lower)

height_cm(raw, diameter, label_lower) ==
    IF Contains(label_lower, W_plate)
    THEN IF raw > 50 THEN Min(raw, 25) ELSE Max(raw, 15)
    ELSE IF AnyWordIn({W_glass, W_cup}, label_lower)
    THEN IF raw < 30 THEN Max(raw, 80) ELSE Min(raw, 150)
    ELSE IF is_flat_item(label_lower)
    THEN Min(Max(Min(raw, (diameter * 5) \div 100), 3), 20)
    ELSE LET height_from_diameter == (diameter * 25) \div 100
             h0 == Min(raw, height_from_diameter)
             h1 == IF diameter < 50 THEN Min(h0, 30)
                   ELSE IF diameter < 100 THEN Min(h0, 60)
                   ELSE Min(h0, 100)
         IN Max(h1, 10)

shape_factor(diameter, label_lower) ==
    IF is_flat_item(label_lower) THEN 40
    ELSE IF diameter < 50 THEN 50
    ELSE IF diameter < 100 THEN 60
    ELSE 65

max_reasonable_volume(diameter, label_lower) ==
    LET from_diameter == (diameter * diameter * diameter) \div 200
        mm == matched_max(label_lower)
        m0 == IF mm # None /\ mm # 0 THEN Min(from_diameter, mm) ELSE from_diameter
    IN Min(m0, 10000)

_calculate_volume_metric3d(mask_depth, label, cal) ==
    IF mask_depth.pixel_count = 0 \/ ~cal.calibrated
    THEN [volume_ml |-> 0, avg_height_cm |-> 0, surface_area_cm2 |-> 0, diameter_cm |-> 0]
    ELSE LET area == surface_area_cm2(mask_depth.pixel_count, cal.pixels_per_cm)
         IN IF ~mask_depth.valid
            THEN [volume_ml |-> 0, avg_height_cm |-> 0, surface_area_cm2 |-> area,
                  diameter_cm |-> 0]
            ELSE LET raw == raw_height_cm(mask_depth, cal.reference_plane_depth_m)
                     diameter == estimated_diameter_cm(area)
                     label_lower == Lower(label)
                     h == height_cm(raw, diameter, label_lower)
                     volume == (area * h * shape_factor(diameter, label_lower)) \div 1000
                     cap == max_reasonable_volume(diameter, label_lower)
                 IN [volume_ml |-> IF volume > cap THEN cap ELSE volume,
                     avg_height_cm |-> h,
                     surface_area_cm2 |-> area,
                     diameter_cm |-> diameter]

(***************************************************************************)
(* Inputs of a run                                                         *)
(***************************************************************************)
Box_A == <<0, 0, 100, 100>>
Box_A2 == <<0, 0, 100, 80>>
Box_C == <<50, 0, 150, 100>>
Box_D == <<300, 300, 660, 700>>

\* what the detector can report for one object: a box and a label
DetItems ==
    { [box |-> Box_A, label |-> W_ribs],
      [box |-> Box_A2, label |-> W_rib],
      [box |-> Box_C, label |-> W_ribs],
      [box |-> Box_D, label |-> W_plate] }

RECURSIVE SeqsUpTo(_, _)
SeqsUpTo(S, n) ==
    IF n = 0 THEN {<<>>}
    ELSE LET shorter == SeqsUpTo(S, n - 1)
         IN shorter \cup {Append(q, x) : q \in shorter, x \in S}

\* the detector's output at one detection event
Detections == SeqsUpTo(DetItems, MaxDet)

\* a frame's depth map, summarised: the median of its positive depths (0 when
\* it has none), the median of the positive depths inside a box (NaN when
\* there is none) and the percentiles of the positive depths under a mask
Scene_empty ==
    [median |-> 0, region_median |-> NaN, valid |-> FALSE,
     p10 |-> 0, p15 |-> 0, p75 |-> 0, p90 |-> 0]
Scene_table ==
    [median |-> 600, region_median |-> 580, valid |-> TRUE,
     p10 |-> 560, p15 |-> 565, p75 |-> 590, p90 |-> 595]
Scenes == {Scene_empty, Scene_table}

\* the mask SAM2 returns for a box prompt covers the box
MaskOf(box, scene) ==
    [pixel_count |-> BoxArea(box), valid |-> scene.valid,
     p10 |-> scene.p10, p15 |-> scene.p15, p75 |-> scene.p75, p90 |-> scene.p90]

(***************************************************************************)
(* State of one run of _run_tracking_pipeline                              *)
(***************************************************************************)
VARIABLES
    pc,               \* "frames", "done" (results returned) or "idle"
    frame_idx,        \* index of the next frame of the loop
    tracked_objects,  \* obj_id -> [box, label, first_seen_frame, last_seen_frame]
    next_object_id,
    volume_history,   \* obj_id -> sequence of samples, only for ids with samples
    calibration,      \* self.calibration
    depth_map_meters, \* depth map of the latest detection event with detections
    boxes,            \* detections of the latest detection event
    labels,
    matched_mapping,  \* of the latest event: sequence of <<obj_id, new_idx>>
    pre_objects,      \* history: tracked_objects when the latest event began
    allocated,        \* history: the ids allocated so far, in order
    merges,           \* history: the merges of the final deduplication
    results,          \* the dictionary returned by the run
    call,             \* a call of one of the pure methods: [fn, args, ret]
    jobs,             \* the jobs table: status of each job id ("none": no item)
    q_visible,        \* the queue: messages that can be received, per body
    q_inflight,       \* the queue: messages received and not yet deleted, per body
    sent,             \* history: messages the upload handler sent, per job
    store,            \* the results bucket: jobs whose results.json is stored
    wpc,              \* the worker's position in poll_queue / process_message
    wbody,            \* the body of the message the worker holds
    gpc,              \* the Gemini processor's position in its handler
    gjob,             \* the job of the Gemini processor's invocation
    served            \* history: jobs whose results the results handler returned

\* the job system around the pipeline
sysVars == <<jobs, q_visible, q_inflight, sent, store, wpc, wbody, gpc, gjob, served>>

vars == <<pc, frame_idx, tracked_objects, next_object_id, volume_history,
          calibration, depth_map_meters, boxes, labels, matched_mapping,
          pre_objects, allocated, merges, results, call, sysVars>>

\* job ids are fresh uuids: the k-th job created is job k.  A message body is
\* a job id (a well-formed message for that job), BadJson (not JSON) or
\* NoJobId (JSON without the required fields)
MaxJobs == 1
MaxMsgs == 2
JobIds == 1..MaxJobs
BadJson == 0
NoJobId == -1
Bodies == JobIds \cup {BadJson, NoJobId}

\* no job, an empty queue, an empty results bucket, worker and processor idle
SysIdle ==
    /\ jobs = [j \in JobIds |-> "none"]
    /\ q_visible = [b \in Bodies |-> 0]
    /\ q_inflight = [b \in Bodies |-> 0]
    /\ sent = [j \in JobIds |-> 0]
    /\ store = {}
    /\ wpc = "poll"
    /\ wbody = BadJson
    /\ gpc = "idle"
    /\ gjob = 1
    /\ served = {}

runVars == <<pc, frame_idx, tracked_objects, next_object_id, volume_history,
             calibration, depth_map_meters, boxes, labels, matched_mapping,
             pre_objects, allocated, merges, results>>

EmptyMap == [x \in {} |-> None]

RECURSIVE SortedSeq(_)
SortedSeq(S) ==
    IF S = {} THEN <<>>
    ELSE LET m == CHOOSE x \in S : \A y \in S : x <= y
         IN <<m>> \o SortedSeq(S \ {m})

\* iteration order of the tracked_objects dictionary: insertion order, which
\* is increasing id because ids are inserted as they are allocated
DictOrder(objs) == SortedSeq(DOMAIN objs)

Range(q) == {q[k] : k \in 1..Len(q)}

(***************************************************************************)
(* Identity Tracker: greedy one-to-one matching (indices are 1-based)      *)
(***************************************************************************)
NoBest == [iou |-> FracZero, obj_id |-> None, new_idx |-> None]

\* variant: the scan stops at the first pair above the threshold
RECURSIVE BestPair_first(_, _, _, _, _, _)
BestPair_first(objs, bxs, rows, matched_new_indices, k, best) ==
    IF k >= Len(rows) * Len(bxs) THEN best
    ELSE LET obj_id == rows[(k \div Len(bxs)) + 1]
             new_idx == (k % Len(bxs)) + 1
             iou == _calculate_iou(bxs[new_idx], objs[obj_id].box)
         IN IF new_idx \notin matched_new_indices /\ FracGt(iou, IoUHalf)
            THEN [iou |-> iou, obj_id |-> obj_id, new_idx |-> new_idx]
            ELSE BestPair_first(objs, bxs, rows, matched_new_indices, k + 1, best)

\* one scan of the remaining rows of iou_matrix, row by row, detection by
\* detection; k counts the pairs already visited
RECURSIVE BestPair(_, _, _, _, _, _)
BestPair(objs, bxs, rows, matched_new_indices, k, best) ==
    IF k >= Len(rows) * Len(bxs) THEN best
    ELSE LET obj_id == rows[(k \div Len(bxs)) + 1]
             new_idx == (k % Len(bxs)) + 1
             iou == _calculate_iou(bxs[new_idx], objs[obj_id].box)
         IN IF new_idx \notin matched_new_indices /\ FracGt(iou, best.iou)
            THEN BestPair(objs, bxs, rows, matched_new_indices, k + 1,
                          [iou |-> iou, obj_id |-> obj_id, new_idx |-> new_idx])
            ELSE BestPair(objs, bxs, rows, matched_new_indices, k + 1, best)

\* variant: the loop ends after its first match
GreedyMatch_once(objs, bxs, rows, mapping) ==
    IF rows = <<>> THEN mapping
    ELSE LET best == BestPair(objs, bxs, rows, {m[2] : m \in Range(mapping)}, 0, NoBest)
         IN IF FracGt(best.iou, IoUHalf) /\ best.obj_id # None
            THEN Append(mapping, <<best.obj_id, best.new_idx>>)
            ELSE mapping

RECURSIVE GreedyMatch(_, _, _, _)
GreedyMatch(objs, bxs, rows, mapping) ==
    IF rows = <<>> THEN mapping
    ELSE LET best == BestPair(objs, bxs, rows, {m[2] : m \in Range(mapping)}, 0, NoBest)
         IN IF FracGt(best.iou, IoUHalf) /\ best.obj_id # None
            THEN GreedyMatch(objs, bxs,
                             SelectSeq(rows, LAMBDA oid : oid # best.obj_id),
                             Append(mapping, <<best.obj_id, best.new_idx>>))
            ELSE mapping

MatchDetections(objs, bxs) ==
    IF DOMAIN objs # {} THEN GreedyMatch(objs, bxs, DictOrder(objs), <<>>) ELSE <<>>

\* unmatched_new: the detection indices left, in increasing order
UnmatchedNew(bxs, mapping) ==
    SelectSeq([k \in 1..Len(bxs) |-> k], LAMBDA k : k \notin {m[2] : m \in Range(mapping)})

\* variant: the counter is not advanced between the new objects of an event
NewObjectId_same(next_id, k) == next_id

\* the id given to the k-th new object of an event
NewObjectId(next_id, k) == next_id + (k - 1)

\* variant: objects that no detection matched are retired
UpdateTracked_retire(objs, bxs, lbls, mapping, next_id, frame) ==
    LET unmatched_new == UnmatchedNew(bxs, mapping)
        matched_ids == {m[1] : m \in Range(mapping)}
        new_ids == {NewObjectId(next_id, k) : k \in 1..Len(unmatched_new)}
        IdxOf(oid) == (CHOOSE m \in Range(mapping) : m[1] = oid)[2]
        KOf(oid) == CHOOSE k \in 1..Len(unmatched_new) : NewObjectId(next_id, k) = oid
    IN [oid \in matched_ids \cup new_ids |->
          IF oid \in new_ids
          THEN [box |-> bxs[unmatched_new[KOf(oid)]],
                label |-> lbls[unmatched_new[KOf(oid)]],
                first_seen_frame |-> frame,
                last_seen_frame |-> frame]
          ELSE [objs[oid] EXCEPT !.box = bxs[IdxOf(oid)],
                                 !.label = lbls[IdxOf(oid)],
                                 !.last_seen_frame = frame]]

\* tracked_objects after the update of the matched objects and the creation
\* of the new ones
UpdateTracked(objs, bxs, lbls, mapping, next_id, frame) ==
    LET unmatched_new == UnmatchedNew(bxs, mapping)
        matched_ids == {m[1] : m \in Range(mapping)}
        new_ids == {NewObjectId(next_id, k) : k \in 1..Len(unmatched_new)}
        IdxOf(oid) == (CHOOSE m \in Range(mapping) : m[1] = oid)[2]
        KOf(oid) == CHOOSE k \in 1..Len(unmatched_new) : NewObjectId(next_id, k) = oid
    IN [oid \in DOMAIN objs \cup new_ids |->
          IF oid \in new_ids
          THEN [box |-> bxs[unmatched_new[KOf(oid)]],
                label |-> lbls[unmatched_new[KOf(oid)]],
                first_seen_frame |-> frame,
                last_seen_frame |-> frame]
          ELSE IF oid \in matched_ids
          THEN [objs[oid] EXCEPT !.box = bxs[IdxOf(oid)],
                                 !.label = lbls[IdxOf(oid)],
                                 !.last_seen_frame = frame]
          ELSE objs[oid]]

\* ids_to_add: the matched ids in matching order, then the new ids
IdsToAdd(mapping, next_id, n_new) ==
    [k \in 1..Len(mapping) |-> mapping[k][1]]
        \o [k \in 1..n_new |-> NewObjectId(next_id, k)]

(***************************************************************************)
(* Calibration inside the run                                              *)
(***************************************************************************)
Uncalibrated == [pixels_per_cm |-> None, calibrated |-> FALSE, reference_plane_depth_m |-> None]

\* variant: the calibrated flag is not consulted
Calibrate_always(cal, scene) ==
    [pixels_per_cm |-> DEFAULT_PIXELS_PER_CM,
     calibrated |-> TRUE,
     reference_plane_depth_m |->
         IF scene.median > 0 THEN scene.median
         ELSE DEFAULT_REFERENCE_PLANE_DEPTH_M]

Calibrate(cal, scene) ==
    IF ~cal.calibrated
    THEN [pixels_per_cm |-> DEFAULT_PIXELS_PER_CM,
          calibrated |-> TRUE,
          reference_plane_depth_m |->
              IF scene.median > 0 THEN scene.median
              ELSE DEFAULT_REFERENCE_PLANE_DEPTH_M]
    ELSE cal

(***************************************************************************)
(* Volume accrual at a detection event                                     *)
(***************************************************************************)
Sample(frame, metrics) ==
    [frame |-> frame, volume_ml |-> metrics.volume_ml,
     height_cm |-> metrics.avg_height_cm, area_cm2 |-> metrics.surface_area_cm2,
     diameter_cm |-> metrics.diameter_cm]

AppendSamples(hist, objs, masked, scene, cal, frame) ==
    [oid \in DOMAIN hist \cup masked |->
        IF oid \in masked
        THEN Append(IF oid \in DOMAIN hist THEN hist[oid] ELSE <<>>,
                    Sample(frame, _calculate_volume_metric3d(
                               MaskOf(objs[oid].box, scene), objs[oid].label, cal)))
        ELSE hist[oid]]

ValidBox(b) == ~(b[3] <= b[1] \/ b[4] <= b[2])

(***************************************************************************)
(* The frame loop                                                          *)
(***************************************************************************)
NoCall == [fn |-> "none", args |-> <<>>, ret |-> <<>>, returned |-> FALSE]
NoResults == [objects |-> EmptyMap, total_objects |-> None]

Init ==
    /\ pc = "frames"
    /\ frame_idx = 0
    /\ tracked_objects = EmptyMap
    /\ next_object_id = 1
    /\ volume_history = EmptyMap
    /\ calibration = Uncalibrated
    /\ depth_map_meters = Scene_empty
    /\ boxes = <<>>
    /\ labels = <<>>
    /\ matched_mapping = <<>>
    /\ pre_objects = EmptyMap
    /\ allocated = <<>>
    /\ merges = <<>>
    /\ results = NoResults
    /\ call = NoCall
    /\ SysIdle

\* a frame that is not a detection frame: nothing happens
PlainFrame ==
    /\ pc = "frames"
    /\ frame_idx < NumFrames
    /\ frame_idx % DETECTION_INTERVAL # 0
    /\ frame_idx' = frame_idx + 1
    /\ UNCHANGED <<pc, tracked_objects, next_object_id, volume_history, calibration,
                   depth_map_meters, boxes, labels, matched_mapping, pre_objects,
                   allocated, merges, results, call, sysVars>>

\* a detection frame on which the detector reports nothing
EmptyDetection ==
    /\ pc = "frames"
    /\ frame_idx < NumFrames
    /\ frame_idx % DETECTION_INTERVAL = 0
    /\ frame_idx' = frame_idx + 1
    /\ boxes' = <<>>
    /\ labels' = <<>>
    /\ UNCHANGED <<pc, tracked_objects, next_object_id, volume_history, calibration,
                   depth_map_meters, matched_mapping, pre_objects, allocated, merges,
                   results, call, sysVars>>

\* a detection frame with detections dets; infer_ok tells whether SAM2's
\* infer_single_frame returned masks or raised, scene is the frame's depth map
DetectionEvent(dets, infer_ok, scene) ==
    /\ pc = "frames"
    /\ frame_idx < NumFrames
    /\ frame_idx % DETECTION_INTERVAL = 0
    /\ Len(dets) > 0
    /\ boxes' = [k \in 1..Len(dets) |-> dets[k].box]
    /\ labels' = [k \in 1..Len(dets) |-> dets[k].label]
    /\ matched_mapping' = MatchDetections(tracked_objects, boxes')
    /\ pre_objects' = tracked_objects
    /\ tracked_objects' = UpdateTracked(tracked_objects, boxes', labels', matched_mapping',
                                        next_object_id, frame_idx)
    /\ LET n_new == Len(UnmatchedNew(boxes', matched_mapping'))
           ids_to_add == IdsToAdd(matched_mapping', next_object_id, n_new)
           successfully_added ==
               {oid \in Range(ids_to_add) : ValidBox(tracked_objects'[oid].box)}
           masked == IF infer_ok THEN successfully_added ELSE {}
       IN /\ next_object_id' = next_object_id + n_new
          /\ allocated' = allocated \o [k \in 1..n_new |-> NewObjectId(next_object_id, k)]
          /\ depth_map_meters' = scene
          /\ calibration' = Calibrate(calibration, scene)
          /\ volume_history' = AppendSamples(volume_history, tracked_objects', masked,
                                             scene, calibration', frame_idx)
    /\ frame_idx' = frame_idx + 1
    /\ UNCHANGED <<pc, merges, results, call, sysVars>>

(***************************************************************************)
(* Deduplication & Merge Engine: _deduplicate_tracked_objects              *)
(*   The state of the two loops is [keep, hist, merges]; keep is indexed   *)
(*   like obj_list, hist is volume_history (mutated in place), merges      *)
(*   records each merge with the history lengths around it.                *)
(***************************************************************************)
HistLen(hist, oid) == IF oid \in DOMAIN hist THEN Len(hist[oid]) ELSE 0

\* the duplicate test of the tracked-object pass
IsDuplicateBox(box_i, box_j) ==
    LET iou == _calculate_iou(box_i, box_j)
        dx2 == (box_i[1] + box_i[3]) - (box_j[1] + box_j[3])
        dy2 == (box_i[2] + box_i[4]) - (box_j[2] + box_j[4])
        size_sum == (box_i[3] - box_i[1]) + (box_i[4] - box_i[2])
                    + (box_j[3] - box_j[1]) + (box_j[4] - box_j[2])
    IN \/ FracGt(iou, IoUFifth)
       \/ (size_sum > 0 /\ 16 * (dx2 * dx2 + dy2 * dy2) < size_sum * size_sum)

\* volume_history after the history of id_from is merged into that of id_to
MergeHistory(hist, id_to, id_from) ==
    IF id_from \in DOMAIN hist /\ id_to \in DOMAIN hist
    THEN [hist EXCEPT ![id_to] = hist[id_to] \o hist[id_from]]
    ELSE hist

MergeInto(st, order, to_idx, from_idx) ==
    LET id_to == order[to_idx]
        id_from == order[from_idx]
        h == MergeHistory(st.hist, id_to, id_from)
    IN [keep |-> [st.keep EXCEPT ![from_idx] = FALSE],
        hist |-> h,
        merges |-> Append(st.merges,
                     [kept |-> id_to, removed |-> id_from,
                      kept_len |-> HistLen(st.hist, id_to),
                      removed_len |-> HistLen(st.hist, id_from),
                      merged_len |-> HistLen(h, id_to)])]

\* variant: the earlier object of a duplicate pair always survives
RECURSIVE DedupInner_first(_, _, _, _, _, _)
DedupInner_first(objs, order, norm, i, j, st) ==
    IF j > Len(order) THEN st
    ELSE IF ~st.keep[j] THEN DedupInner_first(objs, order, norm, i, j + 1, st)
    ELSE IF norm[i] = norm[j] /\ IsDuplicateBox(objs[order[i]].box, objs[order[j]].box)
    THEN DedupInner_first(objs, order, norm, i, j + 1, MergeInto(st, order, i, j))
    ELSE DedupInner_first(objs, order, norm, i, j + 1, st)

RECURSIVE DedupInner(_, _, _, _, _, _)
DedupInner(objs, order, norm, i, j, st) ==
    IF j > Len(order) THEN st
    ELSE IF ~st.keep[j] THEN DedupInner(objs, order, norm, i, j + 1, st)
    ELSE LET obj_i == objs[order[i]]
             obj_j == objs[order[j]]
         IN IF norm[i] # norm[j]
            THEN DedupInner(objs, order, norm, i, j + 1, st)
            ELSE IF IsDuplicateBox(obj_i.box, obj_j.box)
            THEN IF BoxArea(obj_i.box) >= BoxArea(obj_j.box)
                 THEN DedupInner(objs, order, norm, i, j + 1, MergeInto(st, order, i, j))
                 ELSE MergeInto(st, order, j, i)
            ELSE DedupInner(objs, order, norm, i, j + 1, st)

\* variant: only the first object is compared with the others
DedupOuter_once(objs, order, norm, i, st) ==
    IF i > 1 THEN st
    ELSE DedupInner(objs, order, norm, i, i + 1, st)

RECURSIVE DedupOuter(_, _, _, _, _)
DedupOuter(objs, order, norm, i, st) ==
    IF i > Len(order) THEN st
    ELSE IF ~st.keep[i] THEN DedupOuter(objs, order, norm, i + 1, st)
    ELSE DedupOuter(objs, order, norm, i + 1, DedupInner(objs, order, norm, i, i + 1, st))

\* variant: the histories of the removed objects are left in volume_history
_deduplicate_tracked_objects_keephist(objs, hist) ==
    IF Cardinality(DOMAIN objs) <= 1
    THEN [objects |-> objs, hist |-> hist, merges |-> <<>>]
    ELSE LET order == DictOrder(objs)
             norm == [k \in 1..Len(order) |-> normalize_label(objs[order[k]].label)]
             st == DedupOuter(objs, order, norm, 1,
                              [keep |-> [k \in 1..Len(order) |-> TRUE],
                               hist |-> hist, merges |-> <<>>])
             kept_ids == {order[k] : k \in {x \in 1..Len(order) : st.keep[x]}}
         IN [objects |-> [oid \in kept_ids |-> objs[oid]],
             hist |-> st.hist,
             merges |-> st.merges]

\* returns [objects, hist, merges]: the surviving objects, volume_history
\* after the call and the merges made
_deduplicate_tracked_objects(objs, hist) ==
    IF Cardinality(DOMAIN objs) <= 1
    THEN [objects |-> objs, hist |-> hist, merges |-> <<>>]
    ELSE LET order == DictOrder(objs)
             \* normalize_label of each object's label, by position in obj_list
             norm == [k \in 1..Len(order) |-> normalize_label(objs[order[k]].label)]
             st == DedupOuter(objs, order, norm, 1,
                              [keep |-> [k \in 1..Len(order) |-> TRUE],
                               hist |-> hist, merges |-> <<>>])
             kept_ids == {order[k] : k \in {x \in 1..Len(order) : st.keep[x]}}
             removed_ids == DOMAIN objs \ kept_ids
         IN [objects |-> [oid \in kept_ids |-> objs[oid]],
             hist |-> [oid \in DOMAIN st.hist \ removed_ids |-> st.hist[oid]],
             merges |-> st.merges]

(***************************************************************************)
(* Compiling the results                                                   *)
(***************************************************************************)
\* what the external validator can answer
Gemini_no_key == [key |-> FALSE, raised |-> FALSE, validated |-> <<>>, estimated |-> <<>>]
Gemini_raises == [key |-> TRUE, raised |-> TRUE, validated |-> <<>>, estimated |-> <<>>]
Gemini_agrees == [key |-> TRUE, raised |-> FALSE, validated |-> <<>>, estimated |-> <<>>]
Gemini_adjusts ==
    [key |-> TRUE, raised |-> FALSE,
     validated |-> << [food |-> W_Ribs, volume_ml |-> 15000] >>,
     estimated |-> << [food |-> W_Ribs, volume_ml |-> 12000] >>]
GeminiOutcomes == {Gemini_no_key, Gemini_raises, Gemini_agrees, Gemini_adjusts}

\* volume given by the first answer whose food equals the label, ignoring
\* case; None when no answer matches
RECURSIVE AnswerFor(_, _, _)
AnswerFor(answers, label, k) ==
    IF k > Len(answers) THEN None
    ELSE IF Lower(answers[k].food) = Lower(label) THEN answers[k].volume_ml
    ELSE AnswerFor(answers, label, k + 1)

FallbackEstimate(area) == area * 2

\* _batch_validate_and_estimate_volumes_with_gemini and the branch that
\* replaces it when no key is configured
ValidatedVolume(gemini, label, calculated_volume_ml) ==
    IF ~gemini.key \/ gemini.raised THEN calculated_volume_ml
    ELSE LET a == AnswerFor(gemini.validated, label, 1)
         IN IF a # None THEN a ELSE calculated_volume_ml

EstimatedVolume(gemini, label, area) ==
    IF ~gemini.key \/ gemini.raised THEN FallbackEstimate(area)
    ELSE LET a == AnswerFor(gemini.estimated, label, 1)
         IN IF a # None THEN a ELSE FallbackEstimate(area)

ResultKey(oid, label) == <<oid, label>>

CompileResults(objs, hist, cal, gemini) ==
    LET objects_with_volume == {oid \in DOMAIN hist : Len(hist[oid]) > 0}
        LabelOf(oid) == IF oid \in DOMAIN objs THEN objs[oid].label ELSE <<"Unknown_", ToString(oid)>>
        untracked == DOMAIN objs \ objects_with_volume
        Volumes(oid) == [k \in 1..Len(hist[oid]) |-> hist[oid][k].volume_ml]
        Heights(oid) == [k \in 1..Len(hist[oid]) |-> hist[oid][k].height_cm]
        Areas(oid) == [k \in 1..Len(hist[oid]) |-> hist[oid][k].area_cm2]
        AreaOf(oid) == surface_area_cm2(BoxArea(objs[oid].box), cal.pixels_per_cm)
        Entry(oid) ==
            IF oid \in objects_with_volume
            THEN [label |-> LabelOf(oid), obj_id |-> oid,
                  statistics |->
                    [max_volume_ml |-> ValidatedVolume(gemini, LabelOf(oid), SeqMax(Volumes(oid))),
                     max_height_cm |-> SeqMax(Heights(oid)),
                     max_area_cm2 |-> SeqMax(Areas(oid)),
                     num_frames |-> Len(hist[oid]),
                     estimated |-> FALSE,
                     estimation_method |-> None]]
            ELSE [label |-> LabelOf(oid), obj_id |-> oid,
                  statistics |->
                    [max_volume_ml |-> EstimatedVolume(gemini, LabelOf(oid), AreaOf(oid)),
                     max_height_cm |-> 20,
                     max_area_cm2 |-> AreaOf(oid),
                     num_frames |-> 1,
                     estimated |-> TRUE,
                     estimation_method |-> IF gemini.key THEN "gemini" ELSE "fallback"]]
        ids == objects_with_volume \cup untracked
        keys == {ResultKey(oid, LabelOf(oid)) : oid \in ids}
        objects == [key \in keys |-> Entry(key[1])]
    IN [objects |-> objects, total_objects |-> Cardinality(keys)]

\* the end of the run: final deduplication, then the results; the external
\* validator's answer is the input of the step
Finalize ==
    /\ pc = "frames"
    /\ frame_idx = NumFrames
    /\ \E dd \in {_deduplicate_tracked_objects(tracked_objects, volume_history)} :
          /\ tracked_objects' = dd.objects
          /\ volume_history' = dd.hist
          /\ merges' = dd.merges
    /\ \E gemini \in GeminiOutcomes :
          results' = CompileResults(tracked_objects', volume_history', calibration, gemini)
    /\ pc' = "done"
    /\ UNCHANGED <<frame_idx, next_object_id, calibration, depth_map_meters, boxes,
                   labels, matched_mapping, pre_objects, allocated, call, sysVars>>

\* the collaborator calls of a detection event whose exception reaches the
\* caller: the detector (re-raised by its handler), the segmentation state
\* set-up and the depth estimate (neither has a handler of its own)
RaisingCalls == {"detector_raised", "init_state_raised", "depth_raised"}

\* a detection frame on which one of these calls raises: the handler around
\* the frame loop re-raises, the run ends without results, and the locals of
\* the run are gone with it (they are left as the event found them)
FrameRaises(who) ==
    /\ pc = "frames"
    /\ frame_idx < NumFrames
    /\ frame_idx % DETECTION_INTERVAL = 0
    /\ pc' = who
    /\ UNCHANGED <<frame_idx, tracked_objects, next_object_id, volume_history,
                   calibration, depth_map_meters, boxes, labels, matched_mapping,
                   pre_objects, allocated, merges, results, call, sysVars>>

Next ==
    \/ PlainFrame
    \/ EmptyDetection
    \/ \E dets \in Detections, infer_ok \in BOOLEAN, scene \in Scenes :
         DetectionEvent(dets, infer_ok, scene)
    \/ \E who \in RaisingCalls : FrameRaises(who)
    \/ Finalize

Spec == Init /\ [][Next]_vars

(***************************************************************************)
(* A run whose detector reports thin items lying side by side              *)
(***************************************************************************)
Box_L == <<0, 0, 10, 200>>
Box_R == <<12, 0, 22, 200>>

SideBySideItems ==
    { [box |-> Box_L, label |-> W_fries],
      [box |-> Box_R, label |-> W_fries],
      [box |-> Box_R, label |-> W_chicken] }

NextSideBySide ==
    \/ PlainFrame
    \/ EmptyDetection
    \/ \E dets \in SeqsUpTo(SideBySideItems, MaxDet), infer_ok \in BOOLEAN, scene \in Scenes :
         DetectionEvent(dets, infer_ok, scene)
    \/ \E who \in RaisingCalls : FrameRaises(who)
    \/ Finalize

SpecSideBySide == Init /\ [][NextSideBySide]_vars

(***************************************************************************)
(* Jobs processed one after the other by one pipeline instance             *)
(***************************************************************************)
\* the API builds one pipeline at start-up and hands it every job; a job
\* begins by initialising the locals of the run, while the calibration is a
\* field of the pipeline that only its constructor sets
StartJob ==
    /\ pc # "frames"
    /\ pc' = "frames"
    /\ frame_idx' = 0
    /\ tracked_objects' = EmptyMap
    /\ next_object_id' = 1
    /\ volume_history' = EmptyMap
    /\ depth_map_meters' = Scene_empty
    /\ boxes' = <<>>
    /\ labels' = <<>>
    /\ matched_mapping' = <<>>
    /\ pre_objects' = EmptyMap
    /\ allocated' = <<>>
    /\ merges' = <<>>
    /\ results' = NoResults
    /\ UNCHANGED <<calibration, call, sysVars>>

JobItems == { [box |-> Box_A, label |-> W_ribs] }

NextJobs ==
    \/ PlainFrame
    \/ EmptyDetection
    \/ \E dets \in SeqsUpTo(JobItems, MaxDet), infer_ok \in BOOLEAN, scene \in Scenes :
         DetectionEvent(dets, infer_ok, scene)
    \/ \E who \in RaisingCalls : FrameRaises(who)
    \/ Finalize
    \/ StartJob

SpecJobs == Init /\ [][NextJobs]_vars

(***************************************************************************)
(* Calls of the pure methods on bounded inputs                             *)
(***************************************************************************)
RunIdle ==
    /\ pc = "idle"
    /\ frame_idx = 0
    /\ tracked_objects = EmptyMap
    /\ next_object_id = 1
    /\ volume_history = EmptyMap
    /\ calibration = Uncalibrated
    /\ depth_map_meters = Scene_empty
    /\ boxes = <<>>
    /\ labels = <<>>
    /\ matched_mapping = <<>>
    /\ pre_objects = EmptyMap
    /\ allocated = <<>>
    /\ merges = <<>>
    /\ results = NoResults
    /\ SysIdle

RefWidths == {40, 50, 51, 60, 61, 75, 76, 100, 200, 400, 599, 600, 749, 750, 751}
RefHeights == {0, 50, 100, 134, 210, 400, 800}
RefTypes == {"plate", "bowl", "platter"}
RegionMedians == {NaN, 480}

CalibrateArgs ==
    [ref_box : {<<10, 20, 10 + w, 20 + h>> : w \in RefWidths, h \in RefHeights},
     region_median : RegionMedians,
     ref_type : RefTypes]

CalibrateInit ==
    /\ RunIdle
    /\ \E a \in CalibrateArgs :
         call = [fn |-> "_calibrate_from_reference_object", args |-> a,
                 ret |-> <<>>, returned |-> FALSE]

CalibrateCall ==
    /\ call.fn = "_calibrate_from_reference_object"
    /\ ~call.returned
    /\ call' = [call EXCEPT
                  !.ret = _calibrate_from_reference_object(
                              call.args.ref_box, call.args.region_median, call.args.ref_type),
                  !.returned = TRUE]
    /\ UNCHANGED <<runVars, sysVars>>

CalibrateNext == CalibrateCall

SpecCalibrate == CalibrateInit /\ [][CalibrateNext]_vars

VolumeLabels ==
    {W_fries, W_Burger_and_Fries, W_French_Fries, W_plate, W_cup, W_pizza, W_ribs,
     W_chicken_nuggets}
PixelCounts == {0, 2560, 12800, 51200, 128000, 409600}
Depth_none == [valid |-> FALSE, p10 |-> 0, p15 |-> 0, p75 |-> 0, p90 |-> 0]
Depth_flat == [valid |-> TRUE, p10 |-> 590, p15 |-> 590, p75 |-> 590, p90 |-> 590]
Depth_mid == [valid |-> TRUE, p10 |-> 560, p15 |-> 565, p75 |-> 590, p90 |-> 595]
Depth_tall == [valid |-> TRUE, p10 |-> 300, p15 |-> 320, p75 |-> 560, p90 |-> 600]
DepthProfiles == {Depth_none, Depth_flat, Depth_mid, Depth_tall}
\* the calibrations a run can hold when it estimates a volume
VolumeCalibrations ==
    {[pixels_per_cm |-> DEFAULT_PIXELS_PER_CM, calibrated |-> TRUE,
      reference_plane_depth_m |-> r] : r \in {DEFAULT_REFERENCE_PLANE_DEPTH_M, 600}}

VolumeArgs ==
    [mask_depth : {[pixel_count |-> n, valid |-> d.valid, p10 |-> d.p10, p15 |-> d.p15,
                    p75 |-> d.p75, p90 |-> d.p90] : n \in PixelCounts, d \in DepthProfiles},
     label : VolumeLabels,
     cal : VolumeCalibrations]

VolumeInit ==
    /\ RunIdle
    /\ \E a \in VolumeArgs :
         call = [fn |-> "_calculate_volume_metric3d", args |-> a,
                 ret |-> <<>>, returned |-> FALSE]

VolumeCall ==
    /\ call.fn = "_calculate_volume_metric3d"
    /\ ~call.returned
    /\ call' = [call EXCEPT
                  !.ret = _calculate_volume_metric3d(
                              call.args.mask_depth, call.args.label, call.args.cal),
                  !.returned = TRUE]
    /\ UNCHANGED <<runVars, sysVars>>

VolumeNext == VolumeCall

SpecVolume == VolumeInit /\ [][VolumeNext]_vars

(***************************************************************************)
(* Nutrition Aggregator: _analyze_nutrition                                *)
(*   tracking_results['objects'] is a sequence of [key, data] in the       *)
(*   dictionary's insertion order; data is [label, statistics].  Masses    *)
(*   are in 1/10 g, calories in 1/10 kcal, densities in 1/10 g/ml.         *)
(***************************************************************************)
W_platter == <<"p", "l", "a", "t", "t", "e", "r">>
W_fork == <<"f", "o", "r", "k">>
W_knife == <<"k", "n", "i", "f", "e">>
W_spoon == <<"s", "p", "o", "o", "n">>
W_mug == <<"m", "u", "g">>
W_bottle == <<"b", "o", "t", "t", "l", "e">>
W_table == <<"t", "a", "b", "l", "e">>
W_water == <<"w", "a", "t", "e", "r">>
W_sprinkle == <<"s", "p", "r", "i", "n", "k", "l", "e">>
W_surface == <<"s", "u", "r", "f", "a", "c", "e">>
W_wooden == <<"w", "o", "o", "d", "e", "n">>
W_board == <<"b", "o", "a", "r", "d">>
W_cutting_board == <<"c", "u", "t", "t", "i", "n", "g", " ", "b", "o", "a", "r", "d">>
W_background == <<"b", "a", "c", "k", "g", "r", "o", "u", "n", "d">>
W_setting == <<"s", "e", "t", "t", "i", "n", "g">>
W_scene == <<"s", "c", "e", "n", "e">>
W_some_other == <<"s", "o", "m", "e", " ", "o", "t", "h", "e", "r">>
W_other_objects == <<"o", "t", "h", "e", "r", " ", "o", "b", "j", "e", "c", "t", "s">>
W_object == <<"o", "b", "j", "e", "c", "t">>
W_container == <<"c", "o", "n", "t", "a", "i", "n", "e", "r">>
W_napkin == <<"n", "a", "p", "k", "i", "n">>
W_tissue == <<"t", "i", "s", "s", "u", "e">>
W_placemat == <<"p", "l", "a", "c", "e", "m", "a", "t">>
W_mat == <<"m", "a", "t">>
W_question == <<"q", "u", "e", "s", "t", "i", "o", "n">>
W_vqa == <<"v", "q", "a">>
W_text == <<"t", "e", "x", "t">>
W_almonds == <<"a", "l", "m", "o", "n", "d", "s">>
W_parsley == <<"p", "a", "r", "s", "l", "e", "y">>
W_Parsley == <<"P", "a", "r", "s", "l", "e", "y">>
W_Paper_Plate == <<"P", "a", "p", "e", "r", " ", "P", "l", "a", "t", "e">>

\* skip_keywords of _analyze_nutrition
skip_keywords ==
    { W_plate, W_platter, W_fork, W_knife, W_spoon, W_glass, W_cup,
      W_mug, W_bottle, W_table, W_bowl, W_water, W_sprinkle, W_surface,
      W_wooden, W_board, W_cutting_board, W_background, W_setting,
      W_scene, W_some_other, W_other_objects, W_object, W_container,
      W_napkin, W_tissue, W_placemat, W_mat }

\* skip_keywords of _deduplicate_and_combine_with_gemini
combine_skip_keywords ==
    { W_question, W_vqa, W_text, W_plate, W_platter, W_fork, W_knife,
      W_spoon, W_glass, W_cup, W_mug, W_bottle, W_table, W_bowl,
      W_container }

\* Python's dict.get(field, default)
Get(d, field, default) == IF field \in DOMAIN d THEN d[field] ELSE default

\* any(keyword in label.lower() for keyword in skip_keywords)
IsNonFood_exact(label) == Lower(label) \in skip_keywords
IsNonFood(label) == AnyWordIn(skip_keywords, Lower(label))

\* valid_obj_ids: the objects whose label holds none of the combine step's
\* skip keywords
RECURSIVE ValidObjects(_)
ValidObjects(objs) ==
    IF objs = <<>> THEN <<>>
    ELSE IF AnyWordIn(combine_skip_keywords, Lower(Head(objs).data.label))
         THEN ValidObjects(Tail(objs))
         ELSE <<Head(objs)>> \o ValidObjects(Tail(objs))

\* the keys of item_groups: the labels, each once, in order of first appearance
RECURSIVE GroupLabels(_, _)
GroupLabels(objs, seen) ==
    IF objs = <<>> THEN seen
    ELSE LET label == Head(objs).data.label
         IN IF \E k \in 1..Len(seen) : seen[k] = label
            THEN GroupLabels(Tail(objs), seen)
            ELSE GroupLabels(Tail(objs), Append(seen, label))

\* item_groups[label]
RECURSIVE InstancesOf(_, _)
InstancesOf(objs, label) ==
    IF objs = <<>> THEN <<>>
    ELSE IF Head(objs).data.label = label
         THEN <<Head(objs)>> \o InstancesOf(Tail(objs), label)
         ELSE InstancesOf(Tail(objs), label)

RECURSIVE SumVolumes(_)
SumVolumes(instances) ==
    IF instances = <<>> THEN 0
    ELSE Head(instances).data.statistics.max_volume_ml + SumVolumes(Tail(instances))

\* what one group of item_groups contributes to final_objects
CombineGroup(instances, label, combine_items) ==
    IF (\E k \in 1..Len(combine_items) : combine_items[k] = Lower(label))
       /\ Len(instances) > 1
    THEN << [key |-> instances[1].key,
             data |-> [instances[1].data EXCEPT
                         !.statistics.max_volume_ml = SumVolumes(instances)]] >>
    ELSE instances

RECURSIVE CombineAll(_, _, _, _)
CombineAll(objs, group_labels, k, combine_items) ==
    IF k > Len(group_labels) THEN <<>>
    ELSE CombineGroup(InstancesOf(objs, group_labels[k]), group_labels[k], combine_items)
            \o CombineAll(objs, group_labels, k + 1, combine_items)

\* gemini is the assistant's outcome: raised, or the parsed decisions.  The
\* merge step compares the dictionary keys ("ID1_label") with the integers
\* parsed from the groups' ids, so objects_to_merge is always empty and
\* merged_objects is valid_obj_ids.
_deduplicate_and_combine_with_gemini(objs, api_key, gemini) ==
    IF ~api_key THEN objs
    ELSE IF gemini.raised THEN objs
    ELSE LET valid_obj_ids == ValidObjects(objs)
         IN IF Len(valid_obj_ids) <= 1 THEN objs
            ELSE LET merged_objects == valid_obj_ids
                     combine_items == [k \in 1..Len(gemini.combine) |->
                                          Lower(gemini.combine[k])]
                 IN CombineAll(merged_objects, GroupLabels(merged_objects, <<>>), 1,
                               combine_items)

\* the mass the knowledge base reports: the mass handed to it when there is
\* one, volume x density otherwise
rag_mass_g(kb, volume_ml, mass_g) ==
    IF mass_g # None THEN mass_g ELSE (volume_ml * kb.density_g_per_ml) \div 10

\* rag.get_nutrition_for_food; kb is the best match of the knowledge base
get_nutrition_for_food(kb, food_name, volume_ml, mass_g, quantity) ==
    LET m == rag_mass_g(kb, volume_ml, mass_g)
    IN [food_name |-> food_name,
        volume_ml |-> volume_ml,
        density_g_per_ml |-> kb.density_g_per_ml,
        mass_g |-> m,
        calories_per_100g |-> kb.calories_per_100g,
        total_calories |-> (m * kb.calories_per_100g) \div 100,
        calorie_source |-> kb.calorie_source]

\* one iteration of the loop over tracking_results['objects']
NutritionStep_volume(acc, item_data, kb) ==
    LET label == item_data.label
        max_volume == item_data.statistics.max_volume_ml
        gemini_grams_g == Get(item_data.statistics, "gemini_grams_g", None)
        q == Get(item_data.statistics, "quantity", 1)
        quantity == IF q = None \/ q < 1 THEN 1 ELSE q
        nutrition == get_nutrition_for_food(kb, label, max_volume, gemini_grams_g, quantity)
    IN IF IsNonFood(label) THEN acc
       ELSE [nutrition_items |-> Append(acc.nutrition_items, nutrition),
             total_food_volume |-> acc.total_food_volume + max_volume,
             total_mass |-> acc.total_mass + max_volume,
             total_calories |-> acc.total_calories + nutrition.total_calories,
             rag_calls |-> Append(acc.rag_calls,
                                  [food_name |-> label, volume_ml |-> max_volume,
                                   mass_g |-> gemini_grams_g, quantity |-> quantity])]
NutritionStep(acc, item_data, kb) ==
    LET label == item_data.label
        max_volume == item_data.statistics.max_volume_ml
        gemini_grams_g == Get(item_data.statistics, "gemini_grams_g", None)
        q == Get(item_data.statistics, "quantity", 1)
        quantity == IF q = None \/ q < 1 THEN 1 ELSE q
        nutrition == get_nutrition_for_food(kb, label, max_volume, gemini_grams_g, quantity)
    IN IF IsNonFood(label) THEN acc
       ELSE [nutrition_items |-> Append(acc.nutrition_items, nutrition),
             total_food_volume |-> acc.total_food_volume + max_volume,
             total_mass |-> acc.total_mass + nutrition.mass_g,
             total_calories |-> acc.total_calories + nutrition.total_calories,
             rag_calls |-> Append(acc.rag_calls,
                                  [food_name |-> label, volume_ml |-> max_volume,
                                   mass_g |-> gemini_grams_g, quantity |-> quantity])]

RECURSIVE NutritionLoop(_, _, _, _)
NutritionLoop(objs, k, kb, acc) ==
    IF k > Len(objs) THEN acc
    ELSE NutritionLoop(objs, k + 1, kb, NutritionStep(acc, objs[k].data, kb))

\* returns the result dictionary, with the calls made to the knowledge base
\* and tracking_results['objects'] as the method leaves it
_analyze_nutrition(objs, api_key, gemini, kb) ==
    LET tracking == IF api_key
                    THEN _deduplicate_and_combine_with_gemini(objs, api_key, gemini)
                    ELSE objs
        acc == NutritionLoop(tracking, 1, kb,
                   [nutrition_items |-> <<>>, total_food_volume |-> 0, total_mass |-> 0,
                    total_calories |-> 0, rag_calls |-> <<>>])
    IN [items |-> acc.nutrition_items,
        summary |-> [total_food_volume_ml |-> acc.total_food_volume,
                     total_mass_g |-> acc.total_mass,
                     total_calories_kcal |-> acc.total_calories,
                     num_food_items |-> Len(acc.nutrition_items)],
        rag_calls |-> acc.rag_calls,
        tracking |-> tracking]

(***************************************************************************)
(* Calls of _analyze_nutrition on bounded inputs                           *)
(***************************************************************************)
\* the objects of the two cases of test_gemini_nutrition_unit.py
Entry_almonds ==
    [key |-> ResultKey(1, W_almonds),
     data |-> [label |-> W_almonds,
               statistics |-> [max_volume_ml |-> 500, gemini_grams_g |-> 150,
                               gemini_kcal |-> 900, quantity |-> 15]]]
Entry_salad ==
    [key |-> ResultKey(1, W_salad),
     data |-> [label |-> W_salad,
               statistics |-> [max_volume_ml |-> 1000, gemini_grams_g |-> None,
                               gemini_kcal |-> 300, quantity |-> 1]]]
Entry_plate ==
    [key |-> ResultKey(3, W_Paper_Plate),
     data |-> [label |-> W_Paper_Plate,
               statistics |-> [max_volume_ml |-> 300, quantity |-> 1]]]

\* the results of a run that ended with two garnish objects far apart, the
\* first with one volume sample, the second with none
Box_E == <<200, 0, 300, 100>>
GarnishObjects ==
    (1 :> [label |-> W_parsley, box |-> Box_A, first_seen_frame |-> 0, last_seen_frame |-> 0])
    @@ (2 :> [label |-> W_parsley, box |-> Box_E, first_seen_frame |-> 5, last_seen_frame |-> 5])
GarnishCalibration == Calibrate(Uncalibrated, Scene_table)
GarnishHistory ==
    (1 :> << Sample(0, _calculate_volume_metric3d(MaskOf(Box_A, Scene_table), W_parsley,
                                                  GarnishCalibration)) >>)
GarnishResults(api_key) ==
    CompileResults(GarnishObjects, GarnishHistory, GarnishCalibration,
                   IF api_key THEN Gemini_agrees ELSE Gemini_no_key)
Entry_garnish(api_key, oid) ==
    [key |-> ResultKey(oid, W_parsley),
     data |-> GarnishResults(api_key).objects[ResultKey(oid, W_parsley)]]

NutritionEntries(api_key) ==
    {Entry_almonds, Entry_salad, Entry_plate,
     Entry_garnish(api_key, 1), Entry_garnish(api_key, 2)}

\* dictionaries of at most MaxItems objects: the keys are distinct
TrackingInputs(api_key) ==
    {q \in SeqsUpTo(NutritionEntries(api_key), MaxItems) :
        \A i, j \in 1..Len(q) : i # j => q[i].key # q[j].key}

\* what the assistant answers to the combine request
Combine_raises == [raised |-> TRUE, merge_groups |-> <<>>, combine |-> <<>>]
Combine_nothing == [raised |-> FALSE, merge_groups |-> <<>>, combine |-> <<>>]
Combine_garnish ==
    [raised |-> FALSE, merge_groups |-> << <<1, 2>> >>, combine |-> <<W_Parsley>>]
CombineOutcomes == {Combine_raises, Combine_nothing, Combine_garnish}

\* best matches of the knowledge base
KB_default == [density_g_per_ml |-> 10, calories_per_100g |-> 150, calorie_source |-> "default"]
KB_fndds == [density_g_per_ml |-> 8, calories_per_100g |-> 25, calorie_source |-> "FNDDS"]
KnowledgeBases == {KB_default, KB_fndds}

NutritionArgs ==
    UNION {[tracking : TrackingInputs(api_key), api_key : {api_key},
            gemini : CombineOutcomes, kb : KnowledgeBases] : api_key \in BOOLEAN}

NutritionInit ==
    /\ RunIdle
    /\ \E a \in NutritionArgs :
         call = [fn |-> "_analyze_nutrition", args |-> a, ret |-> <<>>, returned |-> FALSE]

NutritionCall ==
    /\ call.fn = "_analyze_nutrition"
    /\ ~call.returned
    /\ call' = [call EXCEPT
                  !.ret = _analyze_nutrition(call.args.tracking, call.args.api_key,
                                             call.args.gemini, call.args.kb),
                  !.returned = TRUE]
    /\ UNCHANGED <<runVars, sysVars>>

NutritionNext == NutritionCall

SpecNutrition == NutritionInit /\ [][NutritionNext]_vars

(***************************************************************************)
(* What a detection event hands to the tracker, by detection mode          *)
(***************************************************************************)
W_tablecloth == <<"t", "a", "b", "l", "e", "c", "l", "o", "t", "h">>
W_menu_card == <<"m", "e", "n", "u", " ", "c", "a", "r", "d">>
W_Table == <<"T", "a", "b", "l", "e">>

GENERIC_OBJECTS ==
    {W_table, W_tablecloth, W_menu_card, W_background, W_setting, W_surface}
MIN_BOX_AREA == 500
_GEMINI_VIDEO_REF_W == 1280
_GEMINI_VIDEO_REF_H == 720

\* max(0, min(v, limit)) on each coordinate
ClipBox(b, w, h) ==
    <<Max(0, Min(b[1], w)), Max(0, Min(b[2], h)),
      Max(0, Min(b[3], w)), Max(0, Min(b[4], h))>>

\* the loop over visible_ingredients: an entry without a name is skipped, the
\* box is clipped to the image, an empty box is skipped; nothing else is
RECURSIVE GeminiVisible(_, _, _, _)
GeminiVisible(visible, k, w, h) ==
    IF k > Len(visible) THEN <<>>
    ELSE LET ing == visible[k]
             name == Strip(ing.name)
             b == ClipBox(ing.bounding_box, w, h)
             rest == GeminiVisible(visible, k + 1, w, h)
         IN IF name = <<>> THEN rest
            ELSE IF b[3] <= b[1] \/ b[4] <= b[2] THEN rest
            ELSE <<[box |-> b, label |-> name]>> \o rest

_detect_objects_gemini(visible, img_width, img_height) ==
    GeminiVisible(visible, 1, img_width, img_height)

\* the one-shot video detector works in the reference frame; without a usable
\* box it falls back to the dish name on a full-frame box, or returns None
\* (is_none)
_detect_objects_gemini_video(visible, main_food_item) ==
    LET found == GeminiVisible(visible, 1, _GEMINI_VIDEO_REF_W, _GEMINI_VIDEO_REF_H)
        main == Strip(main_food_item)
    IN IF found # <<>> THEN [is_none |-> FALSE, detections |-> found]
       ELSE IF main # <<>>
            THEN [is_none |-> FALSE,
                  detections |->
                      <<[box |-> <<0, 0, _GEMINI_VIDEO_REF_W, _GEMINI_VIDEO_REF_H>>,
                         label |-> main]>>]
            ELSE [is_none |-> TRUE, detections |-> <<>>]

\* frame 0 of a one-shot video run: the precomputed boxes are scaled from the
\* reference frame to the frame and clipped
ScaleBox(b, w, h) ==
    ClipBox(<<(b[1] * w) \div _GEMINI_VIDEO_REF_W, (b[2] * h) \div _GEMINI_VIDEO_REF_H,
              (b[3] * w) \div _GEMINI_VIDEO_REF_W, (b[4] * h) \div _GEMINI_VIDEO_REF_H>>,
            w, h)

UseVideoDetections(initial_video_detections, w, h) ==
    IF initial_video_detections.is_none THEN <<>>
    ELSE [k \in 1..Len(initial_video_detections.detections) |->
             [box |-> ScaleBox(initial_video_detections.detections[k].box, w, h),
              label |-> initial_video_detections.detections[k].label]]

\* the last step of the Florence detector
FilterGeneric(found) ==
    SelectSeq(found, LAMBDA d : /\ Lower(d.label) \notin GENERIC_OBJECTS
                                /\ BoxArea(d.box) >= MIN_BOX_AREA)

DetectionModes == {"gemini_image", "gemini_video", "florence"}

\* boxes and labels as the detection event has them when matching starts
DetectAtEvent(mode, visible, main_food_item, w, h) ==
    CASE mode = "gemini_image" -> _detect_objects_gemini(visible, w, h)
      [] mode = "gemini_video" ->
            UseVideoDetections(_detect_objects_gemini_video(visible, main_food_item), w, h)
      [] mode = "florence" ->
            FilterGeneric([k \in 1..Len(visible) |->
                             [box |-> visible[k].bounding_box, label |-> visible[k].name]])

\* what the models can answer for one item, and the frame sizes
VisibleItems ==
    { [name |-> W_ribs, bounding_box |-> <<0, 0, 100, 100>>],
      [name |-> W_Table, bounding_box |-> <<0, 0, 1280, 720>>],
      [name |-> W_fries, bounding_box |-> <<0, 0, 20, 20>>],
      [name |-> W_ribs, bounding_box |-> <<100, 0, 100, 50>>],
      [name |-> <<>>, bounding_box |-> <<0, 0, 100, 100>>],
      [name |-> W_nuggets, bounding_box |-> <<600, 300, 1400, 800>>] }
FrameSizes == {<<1280, 720>>, <<640, 360>>}

DetectArgs ==
    [mode : DetectionModes, visible : SeqsUpTo(VisibleItems, MaxDet),
     main_food_item : {<<>>, W_ribs}, size : FrameSizes]

DetectInit ==
    /\ RunIdle
    /\ \E a \in DetectArgs :
         call = [fn |-> "detect", args |-> a, ret |-> <<>>, returned |-> FALSE]

DetectCall ==
    /\ call.fn = "detect"
    /\ ~call.returned
    /\ call' = [call EXCEPT
                  !.ret = DetectAtEvent(call.args.mode, call.args.visible,
                                        call.args.main_food_item,
                                        call.args.size[1], call.args.size[2]),
                  !.returned = TRUE]
    /\ UNCHANGED <<runVars, sysVars>>

DetectNext == DetectCall

SpecDetect == DetectInit /\ [][DetectNext]_vars

(***************************************************************************)
(* Detection normalizer: _deduplicate_detections                           *)
(***************************************************************************)
MaxDups == 3

box_contains(box_a, box_b) ==
    /\ box_a[1] <= box_b[1]
    /\ box_a[2] <= box_b[2]
    /\ box_a[3] >= box_b[3]
    /\ box_a[4] >= box_b[4]

\* center_dist < max_size * 0.5, with max_size the larger of the two average
\* extents; both sides are multiplied by 4 and squared
CentersClose(box_i, box_j) ==
    LET dx2 == (box_i[1] + box_i[3]) - (box_j[1] + box_j[3])
        dy2 == (box_i[2] + box_i[4]) - (box_j[2] + box_j[4])
        max_size2 == Max((box_i[3] - box_i[1]) + (box_j[3] - box_j[1]),
                         (box_i[4] - box_i[2]) + (box_j[4] - box_j[2]))
    IN max_size2 > 0 /\ 4 * (dx2 * dx2 + dy2 * dy2) < max_size2 * max_size2

\* size_ratio > 0.6
SizesSimilar(area_i, area_j) ==
    /\ Max(area_i, area_j) > 0
    /\ 10 * Min(area_i, area_j) > 6 * Max(area_i, area_j)

\* the rule of the duplicate test that fires for a pair, "none" if none does
DupRule(box_i, box_j) ==
    IF FracGt(_calculate_iou(box_i, box_j), IoUFifth) THEN "iou"
    ELSE IF CentersClose(box_i, box_j) /\ SizesSimilar(BoxArea(box_i), BoxArea(box_j))
    THEN "centers"
    ELSE IF box_contains(box_i, box_j) \/ box_contains(box_j, box_i) THEN "contains"
    ELSE "none"

\* variant: a duplicate always costs the later detection its place
DropOf_later(rule, area_i, area_j) ==
    IF rule = "none" THEN "none" ELSE "j"

\* which detection of the pair loses its keep flag: "i", "j" or "none"
DropOf(rule, area_i, area_j) ==
    IF rule = "none" THEN "none"
    ELSE IF rule = "contains" /\ 2 * area_i > 3 * area_j THEN "i"
    ELSE IF rule = "contains" /\ 2 * area_j > 3 * area_i THEN "j"
    ELSE IF area_i >= area_j THEN "j"
    ELSE "i"

labels_similar(label_i, label_j) ==
    \/ label_i = label_j
    \/ Contains(label_j, label_i)
    \/ Contains(label_i, label_j)

\* normalize_label of _deduplicate_detections: the plural rule leaves a
\* one-letter label alone
normalize_detection_label(label) ==
    LET l0 == Strip(Lower(label))
        l1 == StripArticle(l0, W_a)
        l2 == StripArticle(l1, W_an)
        l3 == StripArticle(l2, W_the)
    IN IF EndsWith(l3, W_s) /\ Len(l3) > 1
          /\ l3 \notin {W_glass, W_glasses, W_fries, W_nuggets}
       THEN SubSeq(l3, 1, Len(l3) - 1)
       ELSE l3

\* st is [keep, verdicts]: the keep flags and the pairs judged so far
RECURSIVE DetInner(_, _, _, _, _)
DetInner(dets, norm, i, j, st) ==
    IF j > Len(dets) THEN st
    ELSE IF ~st.keep[j] THEN DetInner(dets, norm, i, j + 1, st)
    ELSE IF ~labels_similar(norm[i], norm[j]) THEN DetInner(dets, norm, i, j + 1, st)
    ELSE LET rule == DupRule(dets[i].box, dets[j].box)
             drop == DropOf(rule, BoxArea(dets[i].box), BoxArea(dets[j].box))
             v == [i |-> i, j |-> j, rule |-> rule, drop |-> drop]
         IN IF drop = "none" THEN DetInner(dets, norm, i, j + 1, st)
            ELSE IF drop = "j"
            THEN DetInner(dets, norm, i, j + 1,
                          [keep |-> [st.keep EXCEPT ![j] = FALSE],
                           verdicts |-> Append(st.verdicts, v)])
            ELSE [keep |-> [st.keep EXCEPT ![i] = FALSE],
                  verdicts |-> Append(st.verdicts, v)]

RECURSIVE DetOuter(_, _, _, _)
DetOuter(dets, norm, i, st) ==
    IF i > Len(dets) THEN st
    ELSE IF ~st.keep[i] THEN DetOuter(dets, norm, i + 1, st)
    ELSE DetOuter(dets, norm, i + 1, DetInner(dets, norm, i, i + 1, st))

RECURSIVE SumAreas(_, _)
SumAreas(dets, idxs) ==
    IF idxs = {} THEN 0
    ELSE LET k == CHOOSE x \in idxs : TRUE
         IN BoxArea(dets[k].box) + SumAreas(dets, idxs \ {k})

\* the second pass: a kept box more than 3x the average area of the kept
\* boxes with its label is skipped when that label has more than one box
Oversized(dets, keep, k) ==
    LET same == {x \in 1..Len(dets) : keep[x] /\ dets[x].label = dets[k].label}
    IN /\ Cardinality(same) > 1
       /\ BoxArea(dets[k].box) * Cardinality(same) > 3 * SumAreas(dets, same)

\* returns [kept, verdicts]: the indices of the detections returned, in order,
\* and the pairs the first pass judged duplicates
_deduplicate_detections(dets) ==
    IF Len(dets) = 0 THEN [kept |-> <<>>, verdicts |-> <<>>]
    ELSE LET norm == [k \in 1..Len(dets) |-> normalize_detection_label(dets[k].label)]
             st == DetOuter(dets, norm, 1,
                            [keep |-> [k \in 1..Len(dets) |-> TRUE], verdicts |-> <<>>])
             idx == [k \in 1..Len(dets) |-> k]
         IN [kept |-> SelectSeq(idx, LAMBDA k : st.keep[k] /\ ~Oversized(dets, st.keep, k)),
             verdicts |-> st.verdicts]

\* what the detector can hand to the normalizer for one item
Box_in == <<10, 10, 30, 30>>
Box_R2 == <<12, 0, 22, 180>>
Box_Z == <<40, 40, 40, 40>>
DupItems ==
    { [box |-> Box_A, label |-> W_ribs],
      [box |-> Box_A2, label |-> W_The_Ribs],
      [box |-> Box_C, label |-> W_rib],
      [box |-> Box_in, label |-> W_ribs],
      [box |-> Box_L, label |-> W_ribs],
      [box |-> Box_R2, label |-> W_ribs],
      [box |-> Box_Z, label |-> W_ribs],
      [box |-> Box_A, label |-> W_pizza] }

DedupInit ==
    /\ RunIdle
    /\ \E dets \in SeqsUpTo(DupItems, MaxDups) :
         call = [fn |-> "_deduplicate_detections", args |-> dets, ret |-> <<>>,
                 returned |-> FALSE]

DedupCall ==
    /\ call.fn = "_deduplicate_detections"
    /\ ~call.returned
    /\ call' = [call EXCEPT !.ret = _deduplicate_detections(call.args),
                            !.returned = TRUE]
    /\ UNCHANGED <<runVars, sysVars>>

DedupNext == DedupCall

SpecDedup == DedupInit /\ [][DedupNext]_vars

(***************************************************************************)
(* Calls of _calculate_iou on well-formed boxes                            *)
(***************************************************************************)
MaxCoord == 2

\* every box [x1, y1, x2, y2] on the grid with x1 <= x2 and y1 <= y2, the
\* boxes of zero area included
GridBoxes ==
    {<<x1, y1, x2, y2>> : x1 \in 0..MaxCoord, y1 \in 0..MaxCoord,
                          x2 \in 0..MaxCoord, y2 \in 0..MaxCoord}
WellFormedBoxes == {b \in GridBoxes : b[1] <= b[3] /\ b[2] <= b[4]}

IoUInit ==
    /\ RunIdle
    /\ \E b1 \in WellFormedBoxes, b2 \in WellFormedBoxes :
         call = [fn |-> "_calculate_iou", args |-> <<b1, b2>>, ret |-> <<>>,
                 returned |-> FALSE]

IoUCall ==
    /\ call.fn = "_calculate_iou"
    /\ ~call.returned
    /\ call' = [call EXCEPT !.ret = _calculate_iou(call.args[1], call.args[2]),
                            !.returned = TRUE]
    /\ UNCHANGED <<runVars, sysVars>>

IoUNext == IoUCall

SpecIoU == IoUInit /\ [][IoUNext]_vars

(***************************************************************************)
(* A run whose detector reports a square item crossed by a long thin one   *)
(***************************************************************************)
Box_sq == <<10, 10, 110, 110>>
Box_bar == <<0, 55, 120, 65>>
CrossedItems ==
    { [box |-> Box_sq, label |-> W_ribs],
      [box |-> Box_bar, label |-> W_ribs],
      [box |-> Box_bar, label |-> W_pizza] }

NextCrossed ==
    \/ PlainFrame
    \/ EmptyDetection
    \/ \E dets \in SeqsUpTo(CrossedItems, MaxDet), infer_ok \in BOOLEAN, scene \in Scenes :
         DetectionEvent(dets, infer_ok, scene)
    \/ \E who \in RaisingCalls : FrameRaises(who)
    \/ Finalize

SpecCrossed == Init /\ [][NextCrossed]_vars

(***************************************************************************)
(* Calls of _deduplicate_tracked_objects on bounded sets of objects        *)
(***************************************************************************)
MaxObjs == 3

Box_A3 == <<0, 0, 100, 90>>
Box_C2 == <<50, 0, 150, 110>>
Box_E2 == <<100, 0, 200, 120>>
Box_D2 == <<300, 300, 650, 700>>

\* boxes and labels the tracked objects can carry when the frame loop ends:
\* three overlapping ribs, a chain of boxes of which only neighbours overlap,
\* two plates far from them, and a pizza lying on the ribs
ClusterItems ==
    { [box |-> Box_A, label |-> W_ribs],
      [box |-> Box_A2, label |-> W_rib],
      [box |-> Box_A3, label |-> W_The_Ribs],
      [box |-> Box_C2, label |-> W_ribs],
      [box |-> Box_E2, label |-> W_ribs],
      [box |-> Box_D, label |-> W_plate],
      [box |-> Box_D2, label |-> W_plate],
      [box |-> Box_A, label |-> W_pizza] }

TrackedOf(item) ==
    [label |-> item.label, box |-> item.box, first_seen_frame |-> 0,
     last_seen_frame |-> 0]

\* tracked_objects with ids 1..n in every assignment of items to ids
ClusterInputs ==
    UNION {[1..n -> {TrackedOf(it) : it \in ClusterItems}] : n \in 0..MaxObjs}

ClusterInit ==
    /\ RunIdle
    /\ \E objs \in ClusterInputs :
         call = [fn |-> "_deduplicate_tracked_objects", args |-> objs, ret |-> <<>>,
                 returned |-> FALSE]

ClusterCall ==
    /\ call.fn = "_deduplicate_tracked_objects"
    /\ ~call.returned
    /\ call' = [call EXCEPT
                  !.ret = _deduplicate_tracked_objects(call.args, EmptyMap),
                  !.returned = TRUE]
    /\ UNCHANGED <<runVars, sysVars>>

ClusterNext == ClusterCall

SpecClusters == ClusterInit /\ [][ClusterNext]_vars

(***************************************************************************)
(* The job system: upload handler, queue, worker, Gemini processor and     *)
(* results handler                                                         *)
(***************************************************************************)
RECURSIVE SumOver(_, _)
SumOver(f, S) ==
    IF S = {} THEN 0
    ELSE LET x == CHOOSE y \in S : TRUE IN f[x] + SumOver(f, S \ {x})

QueueSize == SumOver(q_visible, Bodies) + SumOver(q_inflight, Bodies)
TotalSent == SumOver(sent, JobIds)
NewJobIds == {j \in JobIds : jobs[j] = "none" /\ \A k \in JobIds : k < j => jobs[k] # "none"}

send_message(body) ==
    /\ q_visible' = [q_visible EXCEPT ![body] = @ + 1]
    /\ sent' = [sent EXCEPT ![body] = @ + 1]

\* upload handler, type 'presigned': a job record in 'pending_upload'
RequestPresigned ==
    /\ \E j \in NewJobIds : jobs' = [jobs EXCEPT ![j] = "pending_upload"]
    /\ UNCHANGED <<q_visible, q_inflight, sent, store, wpc, wbody, gpc, gjob, served>>

\* upload handler, type 'base64': a job record in 'queued' and its message
RequestBase64 ==
    /\ TotalSent < MaxMsgs
    /\ \E j \in NewJobIds :
          /\ jobs' = [jobs EXCEPT ![j] = "queued"]
          /\ send_message(j)
    /\ UNCHANGED <<q_inflight, store, wpc, wbody, gpc, gjob, served>>

\* upload handler, type 'confirm': 404 when the job has no record; otherwise
\* the status is set to 'queued' and a message is sent, whatever the status was
RequestConfirm(j) ==
    /\ TotalSent < MaxMsgs
    /\ jobs[j] # "none"
    /\ jobs' = [jobs EXCEPT ![j] = "queued"]
    /\ send_message(j)
    /\ UNCHANGED <<q_inflight, store, wpc, wbody, gpc, gjob, served>>

\* some other producer puts a message on the queue that is not JSON, or that
\* lacks job_id, s3_bucket or s3_key
ForeignSend(body) ==
    /\ body \in {BadJson, NoJobId}
    /\ QueueSize < MaxMsgs
    /\ q_visible' = [q_visible EXCEPT ![body] = @ + 1]
    /\ UNCHANGED <<jobs, q_inflight, sent, store, wpc, wbody, gpc, gjob, served>>

\* poll_queue: receive_message hands the worker one visible message
Receive(body) ==
    /\ wpc = "poll"
    /\ q_visible[body] > 0
    /\ q_visible' = [q_visible EXCEPT ![body] = @ - 1]
    /\ q_inflight' = [q_inflight EXCEPT ![body] = @ + 1]
    /\ wbody' = body
    /\ wpc' = "received"
    /\ UNCHANGED <<jobs, sent, store, gpc, gjob, served>>

\* the visibility timeout of a message the worker no longer holds runs out
\* (wbody and gjob are locals of a call: they are reset when the call ends)
HeldByWorker(body) == IF wpc # "poll" /\ wbody = body THEN 1 ELSE 0
VisibilityTimeout(body) ==
    /\ q_inflight[body] > HeldByWorker(body)
    /\ q_inflight' = [q_inflight EXCEPT ![body] = @ - 1]
    /\ q_visible' = [q_visible EXCEPT ![body] = @ + 1]
    /\ UNCHANGED <<jobs, sent, store, wpc, wbody, gpc, gjob, served>>

\* process_message on a malformed message: delete_message is tried, a failure
\* of it is printed, and the message is skipped
DeleteInvalid(ok) ==
    /\ wpc = "received"
    /\ wbody \in {BadJson, NoJobId}
    /\ q_inflight' = IF ok THEN [q_inflight EXCEPT ![wbody] = @ - 1] ELSE q_inflight
    /\ wpc' = "poll"
    /\ wbody' = BadJson
    /\ UNCHANGED <<jobs, q_visible, sent, store, gpc, gjob, served>>

\* the steps of the try block; a step that raises (ok = FALSE) goes to the
\* except block
MarkProcessing(ok) ==
    /\ wpc = "received"
    /\ wbody \in JobIds
    /\ jobs' = IF ok THEN [jobs EXCEPT ![wbody] = "processing"] ELSE jobs
    /\ wpc' = IF ok THEN "processing" ELSE "handler"
    /\ UNCHANGED <<q_visible, q_inflight, sent, store, wbody, gpc, gjob, served>>

\* download_media and process_media, which reports its progress under the
\* status 'processing'
ProcessMedia(ok) ==
    /\ wpc = "processing"
    /\ jobs' = IF ok THEN [jobs EXCEPT ![wbody] = "processing"] ELSE jobs
    /\ wpc' = IF ok THEN "processed" ELSE "handler"
    /\ UNCHANGED <<q_visible, q_inflight, sent, store, wbody, gpc, gjob, served>>

\* variant: the results are not written
UploadResults_skip(ok) ==
    /\ wpc = "processed"
    /\ wpc' = IF ok THEN "uploaded" ELSE "handler"
    /\ UNCHANGED <<jobs, q_visible, q_inflight, sent, store, wbody, gpc, gjob, served>>

UploadResults(ok) ==
    /\ wpc = "processed"
    /\ store' = IF ok THEN store \cup {wbody} ELSE store
    /\ wpc' = IF ok THEN "uploaded" ELSE "handler"
    /\ UNCHANGED <<jobs, q_visible, q_inflight, sent, wbody, gpc, gjob, served>>

MarkCompleted(ok) ==
    /\ wpc = "uploaded"
    /\ jobs' = IF ok THEN [jobs EXCEPT ![wbody] = "completed"] ELSE jobs
    /\ wpc' = IF ok THEN "completed" ELSE "handler"
    /\ UNCHANGED <<q_visible, q_inflight, sent, store, wbody, gpc, gjob, served>>

\* variant: the message is deleted although delete_message raised
DeleteMessage_always(ok) ==
    /\ wpc = "completed"
    /\ q_inflight' = [q_inflight EXCEPT ![wbody] = @ - 1]
    /\ wpc' = IF ok THEN "poll" ELSE "handler"
    /\ wbody' = IF ok THEN BadJson ELSE wbody
    /\ UNCHANGED <<jobs, q_visible, sent, store, gpc, gjob, served>>

\* the last statement of the try block
DeleteMessage(ok) ==
    /\ wpc = "completed"
    /\ q_inflight' = IF ok THEN [q_inflight EXCEPT ![wbody] = @ - 1] ELSE q_inflight
    /\ wpc' = IF ok THEN "poll" ELSE "handler"
    /\ wbody' = IF ok THEN BadJson ELSE wbody
    /\ UNCHANGED <<jobs, q_visible, sent, store, gpc, gjob, served>>

\* the except block: the job is marked 'failed' (unless this update raises as
\* well), the message is not deleted, the exception is re-raised, and
\* poll_queue catches it, sleeps and polls again
HandleFailure(ok) ==
    /\ wpc = "handler"
    /\ jobs' = IF ok THEN [jobs EXCEPT ![wbody] = "failed"] ELSE jobs
    /\ wpc' = "poll"
    /\ wbody' = BadJson
    /\ UNCHANGED <<q_visible, q_inflight, sent, store, gpc, gjob, served>>

\* Gemini processor: invoked for a job, it marks the job 'processing'
GeminiInvoke(j) ==
    /\ gpc = "idle"
    /\ jobs[j] # "none"
    /\ jobs' = [jobs EXCEPT ![j] = "processing"]
    /\ gjob' = j
    /\ gpc' = "processing"
    /\ UNCHANGED <<q_visible, q_inflight, sent, store, wpc, wbody, served>>

\* steps 1 to 6: download, the Gemini call (progress is reported under the
\* status 'processing'), and results.json put in the bucket
GeminiUpload ==
    /\ gpc = "processing"
    /\ jobs' = [jobs EXCEPT ![gjob] = "processing"]
    /\ store' = store \cup {gjob}
    /\ gpc' = "uploaded"
    /\ UNCHANGED <<q_visible, q_inflight, sent, wpc, wbody, gjob, served>>

\* step 7
GeminiComplete ==
    /\ gpc = "uploaded"
    /\ jobs' = [jobs EXCEPT ![gjob] = "completed"]
    /\ gpc' = "idle"
    /\ gjob' = 1
    /\ UNCHANGED <<q_visible, q_inflight, sent, store, wpc, wbody, served>>

\* any of these steps raising: the job is marked 'failed' (unless that update
\* raises as well) and the invocation ends
GeminiFail(ok) ==
    /\ gpc \in {"processing", "uploaded"}
    /\ jobs' = IF ok THEN [jobs EXCEPT ![gjob] = "failed"] ELSE jobs
    /\ gpc' = "idle"
    /\ gjob' = 1
    /\ UNCHANGED <<q_visible, q_inflight, sent, store, wpc, wbody, served>>

\* results handler: 404 without a record, 400 unless the status is 'completed'
ResultsRequest(j) ==
    /\ jobs[j] = "completed"
    /\ served' = served \cup {j}
    /\ UNCHANGED <<jobs, q_visible, q_inflight, sent, store, wpc, wbody, gpc, gjob>>

SysInit ==
    /\ RunIdle
    /\ call = NoCall

SysNext ==
    /\ UNCHANGED <<runVars, call>>
    /\ \/ RequestPresigned
       \/ RequestBase64
       \/ \E j \in JobIds : RequestConfirm(j)
       \/ \E body \in Bodies : ForeignSend(body)
       \/ \E body \in Bodies : Receive(body)
       \/ \E body \in Bodies : VisibilityTimeout(body)
       \/ \E ok \in BOOLEAN : DeleteInvalid(ok)
       \/ \E ok \in BOOLEAN : MarkProcessing(ok)
       \/ \E ok \in BOOLEAN : ProcessMedia(ok)
       \/ \E ok \in BOOLEAN : UploadResults(ok)
       \/ \E ok \in BOOLEAN : MarkCompleted(ok)
       \/ \E ok \in BOOLEAN : DeleteMessage(ok)
       \/ \E ok \in BOOLEAN : HandleFailure(ok)
       \/ \E j \in JobIds : GeminiInvoke(j)
       \/ GeminiUpload
       \/ GeminiComplete
       \/ \E ok \in BOOLEAN : GeminiFail(ok)
       \/ \E j \in JobIds : ResultsRequest(j)

SpecSystem == SysInit /\ [][SysNext]_vars

\* the upload handler, the queue and the worker alone
WorkerNext ==
    /\ UNCHANGED <<runVars, call>>
    /\ \/ RequestPresigned
       \/ RequestBase64
       \/ \E j \in JobIds : RequestConfirm(j)
       \/ \E body \in Bodies : ForeignSend(body)
       \/ \E body \in Bodies : Receive(body)
       \/ \E body \in Bodies : VisibilityTimeout(body)
       \/ \E ok \in BOOLEAN : DeleteInvalid(ok)
       \/ \E ok \in BOOLEAN : MarkProcessing(ok)
       \/ \E ok \in BOOLEAN : ProcessMedia(ok)
       \/ \E ok \in BOOLEAN : UploadResults(ok)
       \/ \E ok \in BOOLEAN : MarkCompleted(ok)
       \/ \E ok \in BOOLEAN : DeleteMessage(ok)
       \/ \E ok \in BOOLEAN : HandleFailure(ok)

SpecWorker == SysInit /\ [][WorkerNext]_vars

\* the writers of the job status and of the results store, and the results
\* handler, fed with well-formed messages only
ResultsNext ==
    /\ UNCHANGED <<runVars, call>>
    /\ \/ RequestPresigned
       \/ RequestBase64
       \/ \E j \in JobIds : RequestConfirm(j)
       \/ \E body \in JobIds : Receive(body)
       \/ \E body \in JobIds : VisibilityTimeout(body)
       \/ \E ok \in BOOLEAN : MarkProcessing(ok)
       \/ \E ok \in BOOLEAN : ProcessMedia(ok)
       \/ \E ok \in BOOLEAN : UploadResults(ok)
       \/ \E ok \in BOOLEAN : MarkCompleted(ok)
       \/ \E ok \in BOOLEAN : DeleteMessage(ok)
       \/ \E ok \in BOOLEAN : HandleFailure(ok)
       \/ \E j \in JobIds : GeminiInvoke(j)
       \/ GeminiUpload
       \/ GeminiComplete
       \/ \E ok \in BOOLEAN : GeminiFail(ok)
       \/ \E j \in JobIds : ResultsRequest(j)

SpecResults == SysInit /\ [][ResultsNext]_vars

(***************************************************************************)
(* Properties                                                              *)
(***************************************************************************)
MatchedObjs == {m[1] : m \in Range(matched_mapping)}
MatchedDets == {m[2] : m \in Range(matched_mapping)}
\* IoU of a tracked object, as it was when the latest event began, with a
\* detection of that event
PairIoU(o, d) == _calculate_iou(boxes[d], pre_objects[o].box)

\* C1: ids are allocated from 1 in strictly increasing order, every id
\* allocated so far is below the counter, and during the frame loop the
\* tracked objects are exactly one object per allocated id, so no id is
\* shared or reused.
C1_IdsStrictlyIncreasing ==
    /\ (Len(allocated) > 0 => allocated[1] = 1)
    /\ \A j, k \in 1..Len(allocated) : j < k => allocated[j] < allocated[k]
    /\ \A k \in 1..Len(allocated) : allocated[k] < next_object_id
    /\ DOMAIN tracked_objects \subseteq Range(allocated)
    /\ (pc = "frames" => /\ DOMAIN tracked_objects = Range(allocated)
                         /\ Cardinality(DOMAIN tracked_objects) = Len(allocated))

\* an object of the first event was not matched at the second event, and the
\* second event created a third object
C1_Witness ==
    /\ pc = "frames"
    /\ Len(allocated) >= 3
    /\ \E a, b \in DOMAIN tracked_objects :
         /\ a < b
         /\ tracked_objects[a].last_seen_frame = 0
         /\ tracked_objects[b].first_seen_frame = DETECTION_INTERVAL

UniqueMaxPair(o, d) ==
    /\ FracGt(PairIoU(o, d), IoUHalf)
    /\ \A o2 \in DOMAIN pre_objects, d2 \in 1..Len(boxes) :
         <<o2, d2>> # <<o, d>> => FracGt(PairIoU(o, d), PairIoU(o2, d2))

\* C2: with two tracked objects and two detections, a pair whose IoU is the
\* unique maximum of the four and exceeds 0.5 is committed as a match.
C2_UniqueMaxPairMatched ==
    (Len(boxes) = 2 /\ Cardinality(DOMAIN pre_objects) = 2) =>
        \A o \in DOMAIN pre_objects, d \in 1..Len(boxes) :
            UniqueMaxPair(o, d) => <<o, d>> \in Range(matched_mapping)

\* the unique maximum is at the second object and the second detection, the
\* last pair of the scan, and an earlier pair of the scan also exceeds 0.5
C2_Witness ==
    /\ Len(boxes) = 2
    /\ Cardinality(DOMAIN pre_objects) = 2
    /\ \E o \in DOMAIN pre_objects :
         /\ \A o2 \in DOMAIN pre_objects : o2 <= o
         /\ UniqueMaxPair(o, 2)
         /\ <<o, 2>> \in Range(matched_mapping)
         /\ FracGt(PairIoU(o, 1), IoUHalf)

\* C3: the committed matches of an event are one-to-one, each has IoU > 0.5,
\* and no unmatched object and unmatched detection have IoU > 0.5.
C3_GreedyOneToOne ==
    Len(boxes) > 0 =>
        /\ \A a, b \in 1..Len(matched_mapping) :
             a # b => /\ matched_mapping[a][1] # matched_mapping[b][1]
                      /\ matched_mapping[a][2] # matched_mapping[b][2]
        /\ \A m \in Range(matched_mapping) :
             /\ m[1] \in DOMAIN pre_objects
             /\ m[2] \in 1..Len(boxes)
             /\ FracGt(PairIoU(m[1], m[2]), IoUHalf)
        /\ \A o \in DOMAIN pre_objects \ MatchedObjs :
             \A d \in (1..Len(boxes)) \ MatchedDets :
                ~FracGt(PairIoU(o, d), IoUHalf)

\* two matches were committed, the second one between an object and a
\* detection that the first match left over
C3_Witness ==
    /\ Len(boxes) = 2
    /\ Len(matched_mapping) = 2
    /\ Cardinality(DOMAIN pre_objects) >= 2

\* C4: a step of the frame loop removes no tracked object, and leaves every
\* object the step did not match exactly as it was.
C4_UnmatchedPersist ==
    [][pc' = "frames" =>
         \A oid \in DOMAIN tracked_objects :
            /\ oid \in DOMAIN tracked_objects'
            /\ ((frame_idx % DETECTION_INTERVAL # 0
                   \/ boxes' = <<>>
                   \/ oid \notin {m[1] : m \in Range(matched_mapping')})
                => tracked_objects'[oid] = tracked_objects[oid])]_vars

\* the second detection event matched one object and left another unmatched
C4_Witness ==
    /\ pc = "frames"
    /\ frame_idx > DETECTION_INTERVAL
    /\ Len(boxes) > 0
    /\ \E a, b \in DOMAIN pre_objects :
         /\ a \in MatchedObjs
         /\ b \notin MatchedObjs
         /\ tracked_objects[b] = pre_objects[b]
         /\ tracked_objects[b].last_seen_frame = 0

\* C5: once calibrated, no step changes pixels_per_cm or the reference plane.
C5_CalibrationFrozen ==
    [][calibration.calibrated =>
         /\ calibration'.calibrated
         /\ calibration'.pixels_per_cm = calibration.pixels_per_cm
         /\ calibration'.reference_plane_depth_m = calibration.reference_plane_depth_m]_vars

\* the run calibrated on a depth map without positive depths, and a later
\* detection event saw a depth map with median 0.6 m
C5_Witness ==
    /\ calibration.calibrated
    /\ calibration.reference_plane_depth_m = DEFAULT_REFERENCE_PLANE_DEPTH_M
    /\ frame_idx > DETECTION_INTERVAL
    /\ Len(boxes) > 0
    /\ depth_map_meters = Scene_table

IsReferenceLabel(label) ==
    Contains(Lower(label), W_plate) \/ Contains(Lower(label), W_bowl)
RefTypeOf(label) == IF Contains(Lower(label), W_plate) THEN "plate" ELSE "bowl"
BoxWidth(b) == b[3] - b[1]
BoxHeight(b) == b[4] - b[2]
\* the plausibility checks, as the specification words them
PlausibleReference(b, diameter) ==
    /\ BoxHeight(b) > 0
    /\ 6 * BoxHeight(b) < 10 * BoxWidth(b)
    /\ 10 * BoxWidth(b) < 15 * BoxHeight(b)
    /\ BoxWidth(b) > 50
    /\ BoxWidth(b) * 100 > 300 * diameter
    /\ BoxWidth(b) * 100 < 3000 * diameter
\* the state right after the event at which the run calibrated
JustCalibrated ==
    /\ pc = "frames"
    /\ calibration.calibrated
    /\ Len(boxes) > 0
    /\ DOMAIN pre_objects = {}

\* C6: when the calibrating event includes a plausible plate or bowl, the
\* scale is its width over the known diameter and the reference plane is the
\* median depth inside its box.
C6_RunUsesReferenceObject ==
    JustCalibrated =>
        \A oid \in DOMAIN tracked_objects :
            LET o == tracked_objects[oid]
                diameter == ref_diameter_cm(RefTypeOf(o.label))
            IN (IsReferenceLabel(o.label) /\ PlausibleReference(o.box, diameter)) =>
                  /\ calibration.pixels_per_cm * diameter = BoxWidth(o.box) * 100
                  /\ (depth_map_meters.region_median # NaN =>
                        calibration.reference_plane_depth_m = depth_map_meters.region_median)

CalibrateReturned == call.fn = "_calibrate_from_reference_object" /\ call.returned

\* C7: the method returns width / diameter exactly when the aspect ratio is
\* in (0.6, 1.5), the width exceeds 50 px and the scale is in (3.0, 30.0),
\* and DEFAULT_PIXELS_PER_CM otherwise; 200 x 210 with 25 cm gives 8.0.
C7_CalibrateAcceptsIffPlausible ==
    CalibrateReturned =>
        LET b == call.args.ref_box
            diameter == ref_diameter_cm(call.args.ref_type)
        IN /\ (PlausibleReference(b, diameter) =>
                 call.ret.pixels_per_cm * diameter = BoxWidth(b) * 100)
           /\ (~PlausibleReference(b, diameter) =>
                 call.ret.pixels_per_cm = DEFAULT_PIXELS_PER_CM)
           /\ ((BoxWidth(b) = 200 /\ BoxHeight(b) = 210 /\ diameter = 25) =>
                 call.ret.pixels_per_cm = 800)
           /\ (BoxWidth(b) = 3 * BoxHeight(b) =>
                 call.ret.pixels_per_cm = DEFAULT_PIXELS_PER_CM)

\* the 200 x 210 plate was accepted at 8.0 px/cm
C7_Witness ==
    /\ CalibrateReturned
    /\ BoxWidth(call.args.ref_box) = 200
    /\ BoxHeight(call.args.ref_box) = 210
    /\ call.args.ref_type = "plate"
    /\ call.ret.pixels_per_cm = 800

VolumeReturned == call.fn = "_calculate_volume_metric3d" /\ call.returned

C9_ResultVolumesCapped ==
    pc = "done" =>
        \A key \in DOMAIN results.objects :
            results.objects[key].statistics.max_volume_ml <= 10000

\* C10: each merge of the final deduplication removes exactly one of the two
\* objects, and the survivor's history is as long as the two histories were
\* together.
C10_MergeSumsHistories ==
    pc = "done" =>
        \A m \in Range(merges) :
            /\ m.removed \notin DOMAIN tracked_objects
            /\ m.removed # m.kept
            /\ m.merged_len = m.kept_len + m.removed_len

\* C11: at every point of the run, the samples of each object's volume
\* history are in strictly increasing order of frame index, the histories
\* concatenated by the final deduplication included.
C11_HistoryFramesIncreasing ==
    \A oid \in DOMAIN volume_history :
        \A k \in 1..(Len(volume_history[oid]) - 1) :
            volume_history[oid][k].frame < volume_history[oid][k + 1].frame

\* the boxes share no area
NonOverlapping(b1, b2) ==
    \/ Min(b1[3], b2[3]) <= Max(b1[1], b2[1])
    \/ Min(b1[4], b2[4]) <= Max(b1[2], b2[2])
\* the run is at its end and had exactly one detection event with detections,
\* the latest one, which yielded two boxes that do not overlap
OneEventTwoDisjointBoxes ==
    /\ pc = "done"
    /\ DOMAIN pre_objects = {}
    /\ Len(boxes) = 2
    /\ NonOverlapping(boxes[1], boxes[2])

\* C12: a run with one detection event that yields two non-overlapping boxes
\* ends with exactly two tracked objects, with ids 1 and 2, each carrying the
\* label of its own detection.
C12_TwoDisjointBoxesTwoObjects ==
    OneEventTwoDisjointBoxes =>
        /\ DOMAIN tracked_objects = {1, 2}
        /\ \A k \in {1, 2} : /\ k \in DOMAIN tracked_objects
                             /\ tracked_objects[k].label = labels[k]

NutritionReturned == call.fn = "_analyze_nutrition" /\ call.returned
IsEstimated(e) == Get(e.data.statistics, "estimated", FALSE)
ExternalMass(e) == Get(e.data.statistics, "gemini_grams_g", None)
ExternalCalories(e) == Get(e.data.statistics, "gemini_kcal", None)
ContainsNonFoodKeyword(label) == \E w \in skip_keywords : Contains(Lower(label), w)
ItemsNamed(label) == {k \in 1..Len(call.ret.items) : call.ret.items[k].food_name = label}
CallsNamed(label) == {k \in 1..Len(call.ret.rag_calls) : call.ret.rag_calls[k].food_name = label}
RECURSIVE SumField(_, _)
SumField(items, field) ==
    IF items = <<>> THEN 0 ELSE Head(items)[field] + SumField(Tail(items), field)

\* C13: every food object that reached the results without a volume sample
\* (estimated = true) still has its record, flagged estimated, when
\* _analyze_nutrition returns, and has a nutrition item whose volume is the
\* fallback estimate area x 2.0.
C13_UnsampledObjectsReported ==
    NutritionReturned =>
        \A e \in Range(call.args.tracking) :
            (IsEstimated(e) /\ ~ContainsNonFoodKeyword(e.data.label)) =>
                /\ \E r \in Range(call.ret.tracking) : r.key = e.key /\ IsEstimated(r)
                /\ \E k \in ItemsNamed(e.data.label) :
                      call.ret.items[k].volume_ml
                          = FallbackEstimate(e.data.statistics.max_area_cm2)

\* C14: an object with both an external mass and external calories causes no
\* call of the knowledge base, its item has that mass, those calories and
\* calorie_source 'gemini', and when it is the only object the summary totals
\* are those values.
C14_ExternalMassAndCaloriesSkipRag ==
    NutritionReturned =>
        \A e \in Range(call.args.tracking) :
            (ExternalMass(e) # None /\ ExternalCalories(e) # None
                 /\ ~ContainsNonFoodKeyword(e.data.label)) =>
                /\ CallsNamed(e.data.label) = {}
                /\ \E k \in ItemsNamed(e.data.label) :
                      /\ call.ret.items[k].mass_g = ExternalMass(e)
                      /\ call.ret.items[k].total_calories = ExternalCalories(e)
                      /\ call.ret.items[k].calorie_source = "gemini"
                /\ (Len(call.args.tracking) = 1 =>
                      /\ call.ret.summary.total_mass_g = ExternalMass(e)
                      /\ call.ret.summary.total_calories_kcal = ExternalCalories(e))

\* C15: an object with external calories and no external mass causes exactly
\* one call of the knowledge base, and its item reports the external calories
\* with calorie_source 'gemini'.
C15_ExternalCaloriesOverrideRag ==
    NutritionReturned =>
        \A e \in Range(call.args.tracking) :
            (ExternalMass(e) = None /\ ExternalCalories(e) # None
                 /\ ~ContainsNonFoodKeyword(e.data.label)) =>
                /\ Cardinality(CallsNamed(e.data.label)) = 1
                /\ \E k \in ItemsNamed(e.data.label) :
                      /\ call.ret.items[k].total_calories = ExternalCalories(e)
                      /\ call.ret.items[k].calorie_source = "gemini"

\* the objects the loop of _analyze_nutrition iterates whose label holds no
\* non-food keyword
RECURSIVE FoodObjects(_)
FoodObjects(objs) ==
    IF objs = <<>> THEN <<>>
    ELSE IF ContainsNonFoodKeyword(Head(objs).data.label)
         THEN FoodObjects(Tail(objs))
         ELSE <<Head(objs)>> \o FoodObjects(Tail(objs))

\* C16: no object whose lowercased label contains a non-food keyword gives
\* an item or adds to the summary: the items are those of the other objects,
\* one each and in order, and the total volume is the sum of their volumes.
C16_NonFoodExcluded ==
    NutritionReturned =>
        LET foods == FoodObjects(call.ret.tracking)
        IN /\ Len(call.ret.items) = Len(foods)
           /\ \A k \in 1..Len(foods) :
                 /\ call.ret.items[k].food_name = foods[k].data.label
                 /\ call.ret.items[k].volume_ml = foods[k].data.statistics.max_volume_ml
           /\ call.ret.summary.total_food_volume_ml = SumVolumes(foods)
           /\ call.ret.summary.num_food_items = Len(foods)
           /\ Len(call.ret.rag_calls) = Len(foods)

\* a call returned whose objects were a food and a 'Paper Plate'
C16_Witness ==
    /\ NutritionReturned
    /\ \E e \in Range(call.ret.tracking) :
          e.data.label = W_Paper_Plate /\ e.data.statistics.max_volume_ml > 0
    /\ Len(call.ret.items) = 1
    /\ Len(call.ret.tracking) = 2

\* C17: the summary's total_mass_g and total_calories_kcal are the sums of
\* the items' mass_g and total_calories, and num_food_items is the number of
\* items.
C17_SummaryIsSumOfItems ==
    NutritionReturned =>
        /\ call.ret.summary.total_mass_g = SumField(call.ret.items, "mass_g")
        /\ call.ret.summary.total_calories_kcal = SumField(call.ret.items, "total_calories")
        /\ call.ret.summary.num_food_items = Len(call.ret.items)

\* a call returned two items whose masses differ from their volumes
C17_Witness ==
    /\ NutritionReturned
    /\ Len(call.ret.items) = 2
    /\ \A k \in 1..2 : /\ call.ret.items[k].mass_g > 0
                       /\ call.ret.items[k].mass_g # call.ret.items[k].volume_ml
    /\ call.ret.summary.total_mass_g
          = call.ret.items[1].mass_g + call.ret.items[2].mass_g

\* C18: a detector, segmentation or depth call that fails at a detection event
\* does not abort the run: every frame of the loop is followed by the next
\* frame, and the loop is left only by returning results.
C18_CollaboratorFailureNonFatal ==
    [][(pc = "frames" /\ frame_idx < NumFrames)
          => (pc' = "frames" /\ frame_idx' = frame_idx + 1)]_vars

\* C19: the calibration is job-scoped: the first detection event of a job that
\* has detections leaves the calibration a fresh pipeline computes from that
\* event's frame, whatever the pipeline processed before.
C19_CalibrationJobScoped ==
    [][(pc = "frames" /\ next_object_id = 1 /\ next_object_id' > 1)
          => calibration' = Calibrate(Uncalibrated, depth_map_meters')]_vars

\* C20: in every detection mode, every detection a detection event hands to
\* the tracker has a label that is not, case-insensitively, one of
\* GENERIC_OBJECTS, and a box of area at least MIN_BOX_AREA.
C20_TrackerInputFiltered ==
    (call.fn = "detect" /\ call.returned) =>
        \A k \in 1..Len(call.ret) :
            /\ Lower(call.ret[k].label) \notin GENERIC_OBJECTS
            /\ BoxArea(call.ret[k].box) >= MIN_BOX_AREA

DedupReturned == call.fn = "_deduplicate_detections" /\ call.returned
VerdictArea(v, side) == BoxArea(call.args[IF side = "i" THEN v.i ELSE v.j].box)
DroppedArea(v) == VerdictArea(v, v.drop)
OtherArea(v) == VerdictArea(v, IF v.drop = "i" THEN "j" ELSE "i")
DroppedIdx(v) == IF v.drop = "i" THEN v.i ELSE v.j

\* C21 as stated: whichever rule judges two detections duplicates (IoU,
\* close centers, or containment with area ratio above 1.5), the detection
\* dropped is never the one with the larger box area.
C21_LargerKept ==
    DedupReturned =>
        \A k \in 1..Len(call.ret.verdicts) :
            DroppedArea(call.ret.verdicts[k]) <= OtherArea(call.ret.verdicts[k])

\* C21 amended: a pair judged duplicates by IoU > 0.2 or by close centers
\* with size ratio > 0.6 loses its smaller detection (the later one when the
\* areas are equal), and so does a pair in which one box contains the other
\* with area ratio at most 1.5; a pair in which one box contains the other
\* with area ratio above 1.5, neither earlier rule firing, loses its larger
\* detection; a detection that lost a pair is not returned.
C21_LargerKeptUnlessContained ==
    DedupReturned =>
        \A k \in 1..Len(call.ret.verdicts) :
            LET v == call.ret.verdicts[k]
                much_larger == 2 * Max(DroppedArea(v), OtherArea(v))
                                  > 3 * Min(DroppedArea(v), OtherArea(v))
            IN /\ (v.rule \in {"iou", "centers"} \/ ~much_larger) =>
                    /\ DroppedArea(v) <= OtherArea(v)
                    /\ (DroppedArea(v) = OtherArea(v) => v.drop = "j")
               /\ (v.rule = "contains" /\ much_larger) => DroppedArea(v) > OtherArea(v)
               /\ DroppedIdx(v) \notin Range(call.ret.kept)

\* a call in which the earlier detection of an overlapping pair is the smaller
\* one and is dropped, and a containing box is dropped in favour of the box
\* inside it
C21_Witness ==
    /\ DedupReturned
    /\ \E k \in 1..Len(call.ret.verdicts) :
          /\ call.ret.verdicts[k].rule = "iou"
          /\ call.ret.verdicts[k].drop = "i"
    /\ \E k \in 1..Len(call.ret.verdicts) : call.ret.verdicts[k].rule = "contains"

IoUReturned == call.fn = "_calculate_iou" /\ call.returned

\* C22: _calculate_iou gives 0 for two boxes whose intersection has no area,
\* 1 for two identical boxes of positive area, 0 (with no division by zero)
\* when both boxes have zero area, and always a value in [0, 1].
C22_IoUEndpoints ==
    IoUReturned =>
        LET b1 == call.args[1]
            b2 == call.args[2]
            iou == call.ret
        IN /\ NonOverlapping(b1, b2) => iou.n = 0
           /\ iou.d > 0
           /\ 0 <= iou.n
           /\ iou.n <= iou.d
           /\ (b1 = b2 /\ BoxArea(b1) > 0) => iou.n = iou.d
           /\ (BoxArea(b1) = 0 /\ BoxArea(b2) = 0) => iou.n = 0

\* the function returned for two identical boxes of zero area, whose union
\* has no area either
C22_Witness ==
    /\ IoUReturned
    /\ call.args[1] = call.args[2]
    /\ BoxArea(call.args[1]) = 0

\* position of an id in the enumeration of the tracked objects
EnumPos(objs, oid) ==
    CHOOSE k \in 1..Len(DictOrder(objs)) : DictOrder(objs)[k] = oid

\* C23: in every merge of the final deduplication the survivor has the larger
\* box area, or is the earlier-enumerated object when the areas are equal, and
\* the other object's id is afterwards neither a tracked object nor a key of
\* the volume history.
C23_MergeKeepsLarger ==
    [][(pc = "frames" /\ pc' = "done") =>
         \A m \in Range(merges') :
            LET area_kept == BoxArea(tracked_objects[m.kept].box)
                area_removed == BoxArea(tracked_objects[m.removed].box)
            IN /\ area_kept >= area_removed
               /\ (area_kept = area_removed =>
                     EnumPos(tracked_objects, m.kept) < EnumPos(tracked_objects, m.removed))
               /\ m.removed \notin DOMAIN tracked_objects'
               /\ m.removed \notin DOMAIN volume_history']_vars

\* the run ended with a merge in which the later-enumerated object survived,
\* and the removed object had a volume history of its own
C23_Witness ==
    /\ pc = "done"
    /\ \E m \in Range(merges) : m.kept > m.removed /\ m.removed_len > 0

\* C24: the final deduplication merges two tracked objects only if their
\* normalized labels are equal and their boxes pass the duplicate test of the
\* detection normalizer (IoU > 0.2, or close centers together with a size
\* ratio above 0.6, or one box containing the other).
C24_MergeOnlyNormalizerDuplicates ==
    [][(pc = "frames" /\ pc' = "done") =>
         \A m \in Range(merges') :
            /\ normalize_label(tracked_objects[m.kept].label)
                  = normalize_label(tracked_objects[m.removed].label)
            /\ DupRule(tracked_objects[m.kept].box, tracked_objects[m.removed].box)
                  # "none"]_vars

ClustersReturned == call.fn = "_deduplicate_tracked_objects" /\ call.returned
\* the duplicate relation of the final pass between two objects of the input
DupObjs(a, b) ==
    /\ normalize_label(call.args[a].label) = normalize_label(call.args[b].label)
    /\ IsDuplicateBox(call.args[a].box, call.args[b].box)
\* every two objects of a cluster are duplicates of each other
WellSeparated ==
    \A a, b, c \in DOMAIN call.args :
        (a # b /\ b # c /\ a # c /\ DupObjs(a, b) /\ DupObjs(b, c)) => DupObjs(a, c)
DistinctAreas ==
    \A a, b \in DOMAIN call.args :
        a # b => BoxArea(call.args[a].box) # BoxArea(call.args[b].box)
LargestOfClusters ==
    {a \in DOMAIN call.args :
        \A b \in DOMAIN call.args :
            (b # a /\ DupObjs(a, b)) => BoxArea(call.args[a].box) > BoxArea(call.args[b].box)}

\* C25: when the duplicate relation splits the objects into well-separated
\* clusters and all box areas differ, the ids that survive
\* _deduplicate_tracked_objects are exactly the largest-area object of each
\* cluster, whatever ids (and so whatever enumeration order) the objects have.
C25_ClusterSurvivors ==
    (ClustersReturned /\ WellSeparated /\ DistinctAreas) =>
        DOMAIN call.ret.objects = LargestOfClusters

\* three objects of one cluster, the largest enumerated between the others
C25_Witness ==
    /\ ClustersReturned
    /\ WellSeparated
    /\ DistinctAreas
    /\ DOMAIN call.args = {1, 2, 3}
    /\ DupObjs(1, 2)
    /\ DupObjs(2, 3)
    /\ LargestOfClusters = {2}
    /\ BoxArea(call.args[1].box) < BoxArea(call.args[3].box)

(***************************************************************************)
(* Job system                                                              *)
(***************************************************************************)
\* a step that takes a message off the queue for good
Deletes(body) ==
    q_visible'[body] + q_inflight'[body] < q_visible[body] + q_inflight[body]

QueueUntouched == q_visible' = q_visible /\ q_inflight' = q_inflight

InTryBlock == wpc \in {"received", "processing", "processed", "uploaded", "completed"}

DeletionOnlyWhenDue ==
    \A body \in Bodies :
        Deletes(body) =>
            /\ wbody = body
            /\ \/ wpc = "completed"
               \/ wpc = "received" /\ body \in {BadJson, NoJobId}

RaiseLeavesMessage ==
    (InTryBlock /\ wpc' = "handler") => (QueueUntouched /\ q_inflight[wbody] > 0)

\* C26 as stated: a message is deleted only after the job was marked
\* 'completed' or at once when it is malformed; and whenever processing has
\* raised, the except block leaves the job 'failed', the message on the queue,
\* and the worker polling again.
C26_FailureMarksFailed ==
    [][ /\ DeletionOnlyWhenDue
        /\ RaiseLeavesMessage
        /\ (wpc = "handler" /\ wpc' # "handler") =>
              /\ jobs'[wbody] = "failed"
              /\ QueueUntouched
              /\ wpc' = "poll" ]_vars

\* C26 amended: a message is deleted only after the job was marked
\* 'completed' or at once when it is malformed; whenever processing has
\* raised, the except block tries to mark the job 'failed': the job is then
\* 'failed', or, when that update raises too, keeps the status it had; in both
\* cases the message stays on the queue and the worker polls again.
C26_FailureTriesToMarkFailed ==
    [][ /\ DeletionOnlyWhenDue
        /\ RaiseLeavesMessage
        /\ (wpc = "handler" /\ wpc' # "handler") =>
              /\ jobs'[wbody] \in {"failed", jobs[wbody]}
              /\ \A j \in JobIds \ {wbody} : jobs'[j] = jobs[j]
              /\ QueueUntouched
              /\ q_inflight[wbody] > 0
              /\ wpc' = "poll" ]_vars

\* the except block has run for a job whose message is still in flight, and
\* the worker is polling again
C26_Witness ==
    /\ wpc = "poll"
    /\ \E j \in JobIds : jobs[j] = "failed" /\ q_inflight[j] > 0 /\ sent[j] = 1
    /\ store = {}

\* C27: once a job's status is 'completed', no step of the system changes it:
\* not a failing message deletion, not a redelivery of its message, not a
\* repeated 'confirm'.
C27_CompletedIsFinal ==
    [][ \A j \in JobIds : jobs[j] = "completed" => jobs'[j] = "completed" ]_vars

\* C28: whenever a job's status is 'completed', its results.json is in the
\* results store under the recorded key (worker and Gemini processor upload
\* before they mark), and the results handler serves results only for a job in
\* that status.
C28_CompletedHasResults ==
    [][ /\ \A j \in JobIds : jobs'[j] = "completed" => j \in store'
        /\ \A j \in served' \ served : jobs[j] = "completed" /\ j \in store ]_vars

\* results have been served for a job the worker has just completed
C28_Witness ==
    /\ wpc = "completed"
    /\ jobs[wbody] = "completed"
    /\ wbody \in served
    /\ gpc = "idle"

\* C29: each job is placed on the processing queue at most once: the upload
\* handler never sends a second message for a job, and a step that sends one
\* for an existing job finds that job in 'pending_upload'.
C29_EnqueuedAtMostOnce ==
    [][ \A j \in JobIds :
            sent'[j] > sent[j] =>
                /\ sent'[j] = 1
                /\ jobs[j] \in {"none", "pending_upload"} ]_vars

(***************************************************************************)
(* Results of a run                                                        *)
(***************************************************************************)
EntriesOf(oid) == {key \in DOMAIN results.objects : key[1] = oid}
HasSamples(oid) == oid \in DOMAIN volume_history /\ Len(volume_history[oid]) > 0

\* C30: at the end of a run every surviving tracked object has exactly one
\* entry in results.objects; the entry carries statistics of the object's
\* samples or is flagged estimated, never both; no entry belongs to an id that
\* is not a survivor (a merged-away id in particular); and total_objects is
\* the number of survivors.
C30_ResultsCoverSurvivors ==
    pc = "done" =>
        /\ \A oid \in DOMAIN tracked_objects : Cardinality(EntriesOf(oid)) = 1
        /\ \A key \in DOMAIN results.objects :
              LET st == results.objects[key].statistics
              IN /\ key[1] \in DOMAIN tracked_objects
                 /\ key[2] = tracked_objects[key[1]].label
                 /\ st.estimated <=> ~HasSamples(key[1])
                 /\ ~st.estimated => st.num_frames = Len(volume_history[key[1]])
                 /\ st.estimated => st.num_frames = 1
        /\ \A m \in Range(merges) : EntriesOf(m.removed) = {}
        /\ results.total_objects = Cardinality(DOMAIN tracked_objects)

\* a run that ended after a merge, with a sampled and an estimated object
C30_Witness ==
    /\ pc = "done"
    /\ Len(merges) > 0
    /\ \E key \in DOMAIN results.objects : results.objects[key].statistics.estimated
    /\ \E key \in DOMAIN results.objects : ~results.objects[key].statistics.estimated

====
